---- MODULE Spec2Model ----
(***************************************************************************)
(* Model of the UniMe matching engine: backend/match_me.py (the scoring    *)
(* library and the command-line ranking loop) and backend/api.py (the HTTP *)
(* copy of the ranking loop).                                              *)
(*                                                                         *)
(* Conventions.                                                            *)
(*   - A Python str is a sequence of one-character strings.                *)
(*   - A Python dict is a record; a key the dict lacks is a field the      *)
(*     record lacks, so d.get(k, dflt) is Get(d, k, dflt) and d[k] raises  *)
(*     KeyError exactly when k \notin DOMAIN d.                            *)
(*   - A Python float is an IEEE-754 binary64 value, modelled bit-exactly  *)
(*     (round to nearest, ties to even); see the section "binary64".       *)
(***************************************************************************)
EXTENDS Integers, Sequences, FiniteSets, TLC

(***************************************************************************)
(* Bounds of the model.                                                    *)
(***************************************************************************)
\* longest string handed to normalize_string
MaxStrLen == 3

\* longest generic order list handed to score_categorical_distance
MaxOrderLen == 5

\* largest catalog
MaxCatalog == 2

\* largest num_results
MaxK == 2

VARIABLES
    programs,   \* the catalog: the module-level list loaded from program_profiles.json
    run,        \* run[r]: the locals of the compute_matches call r
    call        \* a call of one of the pure functions of match_me.py

vars == <<programs, run, call>>

(***************************************************************************)
(* Strings.                                                                *)
(***************************************************************************)
None == <<"<None>">>

\* the characters are those of Latin-1, U+0000 to U+00FF; str.lower() changes
\* the 56 of UpperChars into those of LowerChars and no other
UpperChars == <<"A","B","C","D","E","F","G","H","I","J","K","L","M",
                 "N","O","P","Q","R","S","T","U","V","W","X","Y","Z",
                 "À","Á","Â","Ã","Ä","Å","Æ","Ç","È","É","Ê","Ë","Ì",
                 "Í","Î","Ï","Ð","Ñ","Ò","Ó","Ô","Õ","Ö","Ø","Ù","Ú",
                 "Û","Ü","Ý","Þ">>

LowerChars == <<"a","b","c","d","e","f","g","h","i","j","k","l","m",
                 "n","o","p","q","r","s","t","u","v","w","x","y","z",
                 "à","á","â","ã","ä","å","æ","ç","è","é","ê","ë","ì",
                 "í","î","ï","ð","ñ","ò","ó","ô","õ","ö","ø","ù","ú",
                 "û","ü","ý","þ">>

\* the characters that str.strip() drops: U+0009 to U+000D, U+001C to U+0020,
\* U+0085 and U+00A0
Whitespace == {" ", "\t", "\n", "", "\f", "\r", "", "", "", "", "", " "}

\* str.lower() on one character
LowerChar(c) ==
    IF \E i \in 1..Len(UpperChars) : UpperChars[i] = c
    THEN LowerChars[CHOOSE i \in 1..Len(UpperChars) : UpperChars[i] = c]
    ELSE c

\* str.lower()
StrLower(s) == [i \in 1..Len(s) |-> LowerChar(s[i])] \o <<>>

\* str.replace(old, new) for one-character old and new
StrReplace(s, old, new) == [i \in 1..Len(s) |-> IF s[i] = old THEN new ELSE s[i]] \o <<>>

\* str.strip(): drops the leading and the trailing whitespace
StrStrip(s) ==
    LET keep == {i \in 1..Len(s) : s[i] \notin Whitespace}
    IN  IF keep = {} THEN <<>>
        ELSE LET lo == CHOOSE i \in keep : \A j \in keep : i <= j
                 hi == CHOOSE i \in keep : \A j \in keep : j <= i
             IN  SubSeq(s, lo, hi)

\* the first character of str.capitalize(): the title case of c, which for
\* U+00DF is two characters and for U+00B5 is U+039C.  The title case of
\* U+00FF is U+0178, a character that the text of a module cannot hold: it
\* is written "<U+0178>" and stands for that one character.
TitleChar(c) ==
    IF c = "ß" THEN <<"S", "s">>
    ELSE IF c = "µ" THEN <<"Μ">>
    ELSE IF c = "ÿ" THEN <<"<U+0178>">>
    ELSE IF \E i \in 1..Len(LowerChars) : LowerChars[i] = c
    THEN <<UpperChars[CHOOSE i \in 1..Len(LowerChars) : LowerChars[i] = c]>>
    ELSE <<c>>

\* str.capitalize(): the first character in title case, the rest lower-cased
StrCapitalize(s) ==
    IF s = <<>> THEN <<>> ELSE TitleChar(s[1]) \o StrLower(Tail(s))

\* `sub in s` for strings
StrContains(s, sub) ==
    \E i \in 1..(Len(s) - Len(sub) + 1) : SubSeq(s, i, i + Len(sub) - 1) = sub

\* Python runs its statements in order: InOrder(<<v1, ..., vn>>) is vn, and the
\* tuple is built from left to right, so that vn finds v1, ..., v(n-1) finished.
\* Likewise `f \o <<>>` is the list f with its items finished.
InOrder(steps) == steps[Len(steps)]

\* `not s` for a str or None
Falsy(s) == s = None \/ s = <<>>

\* normalize_string with strip() called before the separators are replaced
NormalizeStripFirst(s) ==
    IF Falsy(s) THEN <<>>
    ELSE StrReplace(StrReplace(StrReplace(StrStrip(StrLower(s)), "-", " "), "/", " "),
                    "_", " ")

\* normalize_string
normalize_string(s) ==
    IF Falsy(s) THEN <<>>
    ELSE
        LET lower == StrLower(s)
            r1 == StrReplace(lower, "-", " ")
            r2 == StrReplace(r1, "/", " ")
            r3 == StrReplace(r2, "_", " ")
        IN  InOrder(<<lower, r1, r2, r3, StrStrip(r3)>>)

(***************************************************************************)
(* binary64.  A Python float that is finite is [sign, exp, hi, lo] with    *)
(* value (-1)^sign * (hi * 2^28 + lo) * 2^exp, where either hi = lo = 0    *)
(* (zero, kept unsigned) or the significand hi * 2^28 + lo has exactly 53  *)
(* bits.  Every operation computes the exact result and rounds it once to  *)
(* the nearest such value, ties to even, as IEEE 754 prescribes.  The      *)
(* exponent is unbounded: no value of this program nears the overflow or   *)
(* the subnormal range.  Limbs of 28 and 14 bits keep every intermediate   *)
(* below 2^31.                                                             *)
(***************************************************************************)
Pow2 == [k \in 0..30 |-> 2^k]

W28 == Pow2[28]

BitLen(x) == IF x = 0 THEN 0 ELSE CHOOSE n \in 1..30 : Pow2[n-1] <= x /\ x < Pow2[n]

PairBitLen(hi, lo) == IF hi = 0 THEN BitLen(lo) ELSE 28 + BitLen(hi)

\* (hi * 2^28 + lo) shifted right by k bits; the third component tells whether a
\* nonzero bit was shifted out
ShrPair(hi, lo, k) ==
    IF k = 0 THEN <<hi, lo, FALSE>>
    ELSE IF k < 28 THEN
        <<hi \div Pow2[k],
          (lo \div Pow2[k]) + (hi % Pow2[k]) * Pow2[28 - k],
          lo % Pow2[k] # 0>>
    ELSE IF k < 58 THEN
        <<0, hi \div Pow2[k - 28], (hi % Pow2[k - 28] # 0) \/ lo # 0>>
    ELSE <<0, 0, hi # 0 \/ lo # 0>>

\* (hi * 2^28 + lo) shifted left by k bits (the result has at most 58 bits)
ShlPair(hi, lo, k) ==
    IF k = 0 THEN <<hi, lo>>
    ELSE IF k < 28 THEN
        <<hi * Pow2[k] + lo \div Pow2[28 - k], (lo % Pow2[28 - k]) * Pow2[k]>>
    ELSE <<lo * Pow2[k - 28], 0>>

FZero == [sign |-> 0, exp |-> 0, hi |-> 0, lo |-> 0]

IsZero(x) == x.hi = 0 /\ x.lo = 0

\* The binary64 value nearest to (-1)^s * (hi * 2^28 + lo + f) * 2^e, where
\* 0 < f < 1 if sticky and f = 0 otherwise; ties go to the even significand.
\* PackCarry: the rounded significand is hi * 2^28 + lo with lo <= 2^28; it has
\* 53 bits, or is 2^53
PackCarry(s, e, hi, lo) ==
    IF lo < W28 THEN [sign |-> s, exp |-> e, hi |-> hi, lo |-> lo]
    ELSE IF hi + 1 = Pow2[25] THEN [sign |-> s, exp |-> e + 1, hi |-> Pow2[24], lo |-> 0]
    ELSE [sign |-> s, exp |-> e, hi |-> hi + 1, lo |-> 0]

\* q is the significand shifted right, r the bits shifted out of the low limb
PackRound(s, e, q, r, half, sticky) ==
    IF r > half \/ (r = half /\ (sticky \/ q[2] % 2 = 1))
    THEN PackCarry(s, e, q[1], q[2] + 1)
    ELSE PackCarry(s, e, q[1], q[2])

PackExact(s, e, m) == [sign |-> s, exp |-> e, hi |-> m[1], lo |-> m[2]]

PackBits(s, e, hi, lo, sticky, n) ==
    IF n = 0 THEN FZero
    ELSE IF n <= 53 THEN PackExact(s, e - (53 - n), ShlPair(hi, lo, 53 - n))
    ELSE PackRound(s, e + (n - 53), ShrPair(hi, lo, n - 53),
                   lo % Pow2[n - 53], Pow2[n - 54], sticky)

Pack(s, e, hi, lo, sticky) == PackBits(s, e, hi, lo, sticky, PairBitLen(hi, lo))

\* float(n) for an int n with |n| < 2^31
FromInt(n) ==
    Pack(IF n < 0 THEN 1 ELSE 0, 0, (IF n < 0 THEN -n ELSE n) \div W28,
         (IF n < 0 THEN -n ELSE n) % W28, FALSE)

FNeg(x) == IF IsZero(x) THEN x ELSE [x EXCEPT !.sign = 1 - x.sign]

\* |x| < |y|, |x| = |y| for canonical values
MagLt(x, y) ==
    IF IsZero(y) THEN FALSE
    ELSE IF IsZero(x) THEN TRUE
    ELSE x.exp < y.exp
         \/ (x.exp = y.exp /\ (x.hi < y.hi \/ (x.hi = y.hi /\ x.lo < y.lo)))

FLt(x, y) ==
    IF x.sign = 0 /\ y.sign = 0 THEN MagLt(x, y)
    ELSE IF x.sign = 1 /\ y.sign = 1 THEN MagLt(y, x)
    ELSE x.sign = 1 /\ ~(IsZero(x) /\ IsZero(y))

\* x + y
\* the difference P - Q of the aligned significands, P > Q
SubMag(s, e, hi, lo) ==
    Pack(s, e, IF lo < 0 THEN hi - 1 ELSE hi, IF lo < 0 THEN lo + W28 ELSE lo, FALSE)

\* the sum of the aligned significands
AddMag(s, e, hi, lo) == Pack(s, e, hi + lo \div W28, lo % W28, FALSE)

\* A and B are the significands with three extra bits below, B aligned to A
AddAligned(sa, sb, e, A, B) ==
    InOrder(<<A, B,
              IF sa = sb THEN AddMag(sa, e, A[1] + B[1], A[2] + B[2])
              ELSE IF A = B THEN FZero
              ELSE IF A[1] > B[1] \/ (A[1] = B[1] /\ A[2] > B[2])
              THEN SubMag(sa, e, A[1] - B[1], A[2] - B[2])
              ELSE SubMag(sb, e, B[1] - A[1], B[2] - A[2])>>)

\* a nonzero bit shifted out of the smaller operand is kept in its lowest bit
StickyLow(B1) == <<B1[1], IF B1[3] /\ B1[2] % 2 = 0 THEN B1[2] + 1 ELSE B1[2]>>

AlignTo(B0, k) == StickyLow(ShrPair(B0[1], B0[2], k))

\* a + b for a.exp >= b.exp
AddOrdered(a, b) ==
    AddAligned(a.sign, b.sign, a.exp - 3, ShlPair(a.hi, a.lo, 3),
               AlignTo(ShlPair(b.hi, b.lo, 3), a.exp - b.exp))

FAdd(x, y) ==
    IF IsZero(x) THEN y
    ELSE IF IsZero(y) THEN x
    ELSE IF x.exp >= y.exp THEN AddOrdered(x, y)
    ELSE AddOrdered(y, x)

\* x - y
FSub(x, y) == FAdd(x, FNeg(y))

\* x * y
\* the columns of the schoolbook product of two numbers of four 14-bit limbs
MulCols(a0, a1, a2, a3, b0, b1, b2, b3) ==
    <<a0 * b0,
      a0 * b1 + a1 * b0,
      a0 * b2 + a1 * b1 + a2 * b0,
      a0 * b3 + a1 * b2 + a2 * b1 + a3 * b0,
      a1 * b3 + a2 * b2 + a3 * b1,
      a2 * b3 + a3 * b2,
      a3 * b3>>

\* the columns d[i..] with the carry of the columns before them added in
RECURSIVE MulCarry(_, _, _)
MulCarry(d, i, carry) ==
    IF i > Len(d) THEN <<>>
    ELSE <<d[i] + carry>> \o MulCarry(d, i + 1, (d[i] + carry) \div Pow2[14])

\* the product is sum (c[i+1] % 2^14) * 2^(14 i) + (c[7] \div 2^14) * 2^98;
\* its bits 50 and up are kept and the rest is sticky
MulPack(s, e, c) ==
    InOrder(<<c, Pack(s, e,
         (c[6] % Pow2[14]) \div Pow2[8] + (c[7] % Pow2[14]) * Pow2[6]
             + (c[7] \div Pow2[14]) * Pow2[20],
         (c[4] % Pow2[14]) \div Pow2[8] + (c[5] % Pow2[14]) * Pow2[6]
             + ((c[6] % Pow2[14]) % Pow2[8]) * Pow2[20],
         c[1] % Pow2[14] # 0 \/ c[2] % Pow2[14] # 0 \/ c[3] % Pow2[14] # 0
             \/ (c[4] % Pow2[14]) % Pow2[8] # 0)>>)

FMul(x, y) ==
    IF IsZero(x) \/ IsZero(y) THEN FZero
    ELSE MulPack((x.sign + y.sign) % 2, x.exp + y.exp + 50,
                 MulCarry(MulCols(x.lo % Pow2[14], x.lo \div Pow2[14],
                                  x.hi % Pow2[14], x.hi \div Pow2[14],
                                  y.lo % Pow2[14], y.lo \div Pow2[14],
                                  y.hi % Pow2[14], y.hi \div Pow2[14]), 1, 0))

\* a >= b for a = ahi * 2^28 + alo and b = bhi * 2^28 + blo
PairGe(ahi, alo, bhi, blo) == ahi > bhi \/ (ahi = bhi /\ alo >= blo)

\* r is <<hi, lo, n>>: the divisor d is taken from hi * 2^28 + lo if it fits,
\* and n counts it
SubIfGe(r, dhi, dlo) ==
    IF PairGe(r[1], r[2], dhi, dlo)
    THEN IF r[2] < dlo THEN <<r[1] - dhi - 1, r[2] - dlo + W28, r[3] + 1>>
         ELSE <<r[1] - dhi, r[2] - dlo, r[3] + 1>>
    ELSE r

\* g * d for g <= 32, as <<hi, lo>>
MulSmall(g, dhi, dlo) ==
    LET t0 == g * (dlo % Pow2[14])
        t1 == g * (dlo \div Pow2[14]) + t0 \div Pow2[14]
    IN  <<g * dhi + t1 \div Pow2[14], (t1 % Pow2[14]) * Pow2[14] + (t0 % Pow2[14])>>

\* One less than the estimate of floor(32 r / d) from the leading 24 bits of r
\* and d, which never exceeds the digit and is at most 2 below it
DivEstimate(rhi, dhi) ==
    IF (32 * (rhi \div 2)) \div (dhi \div 2) > 0
    THEN (32 * (rhi \div 2)) \div (dhi \div 2) - 1
    ELSE 0

\* 32 r - p, then less d where d fits, with the digit: <<hi, lo, digit>>
DivCorrect(s, dhi, dlo, g, p) ==
    SubIfGe(SubIfGe(
        IF (s[2] % Pow2[23]) * 32 < p[2]
        THEN <<s[1] * 32 + s[2] \div Pow2[23] - p[1] - 1,
               (s[2] % Pow2[23]) * 32 - p[2] + W28, g>>
        ELSE <<s[1] * 32 + s[2] \div Pow2[23] - p[1],
               (s[2] % Pow2[23]) * 32 - p[2], g>>,
        dhi, dlo), dhi, dlo)

DivDigit(s, dhi, dlo, g) ==
    InOrder(<<g, DivCorrect(s, dhi, dlo, g, MulSmall(g, dhi, dlo))>>)

\* the quotient s[3] * 2^28 + s[4] with the digit w[3] appended, the
\* remainder w[1] * 2^28 + w[2], and one step less to do
DivResult(s, w) ==
    <<w[1], w[2], s[3] * 32 + s[4] \div Pow2[23], (s[4] % Pow2[23]) * 32 + w[3],
      s[5] - 1>>

\* One step of long division in base 32.  s is <<rhi, rlo, qhi, qlo, n>>: a
\* remainder r = rhi * 2^28 + rlo below the divisor d = dhi * 2^28 + dlo (53
\* bits), the quotient so far and the number of steps left; the step appends
\* the digit floor(32 r / d) to the quotient and leaves 32 r - digit * d.
DivStep(s, dhi, dlo) ==
    IF s[1] = 0 /\ s[2] = 0
    THEN <<0, 0, s[3] * 32 + s[4] \div Pow2[23], (s[4] % Pow2[23]) * 32, s[5] - 1>>
    ELSE DivResult(s, DivDigit(s, dhi, dlo, DivEstimate(s[1], dhi)))

\* the steps of long division left in s
RECURSIVE DivLoop(_, _, _)
DivLoop(s, dhi, dlo) ==
    IF s[5] = 0 THEN s ELSE DivLoop(DivStep(s, dhi, dlo), dhi, dlo)

\* the quotient q[3] * 2^28 + q[4] of the significands and the remainder left,
\* rounded
DivPack(sign, exp, q) ==
    InOrder(<<q, Pack(sign, exp, q[3], q[4], q[1] # 0 \/ q[2] # 0)>>)

\* the significand of x less that of y if that of y fits: the first quotient
\* bit and the remainder, with 11 steps to do, as <<rhi, rlo, 0, bit, 11>>
DivStart(x, y) ==
    IF PairGe(x.hi, x.lo, y.hi, y.lo)
    THEN IF x.lo < y.lo THEN <<x.hi - y.hi - 1, x.lo - y.lo + W28, 0, 1, 11>>
         ELSE <<x.hi - y.hi, x.lo - y.lo, 0, 1, 11>>
    ELSE <<x.hi, x.lo, 0, 0, 11>>

\* x / y for y # 0 (Python raises ZeroDivisionError for y = 0): the quotient
\* floor(n * 2^55 / d) of the significands n and d, rounded
FDiv(x, y) ==
    IF IsZero(x) THEN FZero
    ELSE IF y.hi = Pow2[24] /\ y.lo = 0
    THEN [x EXCEPT !.sign = (x.sign + y.sign) % 2, !.exp = x.exp - y.exp - 52]
    ELSE DivPack((x.sign + y.sign) % 2, x.exp - y.exp - 55,
                 DivLoop(DivStart(x, y), y.hi, y.lo))

\* the positive float (hi * 2^28 + lo) * 2^exp
Bin64(hi, lo, exp) == [sign |-> 0, exp |-> exp, hi |-> hi, lo |-> lo]

\* abs(n) for an int
Abs(n) == IF n < 0 THEN -n ELSE n

\* min(x, y) for floats (Python returns the first argument unless y < x)
FMin(x, y) == IF FLt(y, x) THEN y ELSE x


(***************************************************************************)
(* Float constants of the program.                                         *)
(***************************************************************************)
F0_05 == Bin64(26843545, 161061274, -57)  \* 0.05
F0_1 == Bin64(26843545, 161061274, -56)  \* 0.1
F0_15 == Bin64(20132659, 53687091, -55)  \* 0.15
F0_2 == Bin64(26843545, 161061274, -55)  \* 0.2
F0_3 == Bin64(20132659, 53687091, -54)  \* 0.3
F0_4 == Bin64(26843545, 161061274, -54)  \* 0.4
F0_5 == Bin64(16777216, 0, -53)  \* 0.5
F0_6 == Bin64(20132659, 53687091, -53)  \* 0.6
F0_7 == Bin64(23488102, 107374182, -53)  \* 0.7
F0_75 == Bin64(25165824, 0, -53)  \* 0.75
F0_8 == Bin64(26843545, 161061274, -53)  \* 0.8
F1_2 == Bin64(20132659, 53687091, -52)  \* 1.2
F1_3 == Bin64(21810380, 214748365, -52)  \* 1.3
F1_5 == Bin64(25165824, 0, -52)  \* 1.5
F1_4 == Bin64(23488102, 107374182, -52)  \* 1.4
F1_6 == Bin64(26843545, 161061274, -52)  \* 1.6
F1_7 == Bin64(28521267, 53687091, -52)  \* 1.7
F1_8 == Bin64(30198988, 214748365, -52)  \* 1.8
F1_0 == Bin64(16777216, 0, -52)
F2_0 == Bin64(16777216, 0, -51)
F4_0 == Bin64(16777216, 0, -50)

(***************************************************************************)
(* Similarity primitives.                                                  *)
(***************************************************************************)
\* calculate_trait_score_with_confidence without the confidence weighting
TraitSimNoConfidence(user_val, prog_val) ==
    FSub(F1_0, FDiv(FromInt(Abs(prog_val - user_val)), F4_0))

\* calculate_trait_score_with_confidence with a confidence floor of 1.0
TraitSimFloorOne(user_val, prog_val) ==
    LET similarity == FSub(F1_0, FDiv(FromInt(Abs(prog_val - user_val)), F4_0))
        importance == FDiv(FromInt(Abs(user_val - 3)), F2_0)
        confidence_weight == FAdd(F1_0, FMul(importance, F0_4))
    IN  FMul(similarity, confidence_weight)

calculate_trait_score_with_confidence(user_val, prog_val) ==
    LET similarity == FSub(F1_0, FDiv(FromInt(Abs(prog_val - user_val)), F4_0))
        importance == FDiv(FromInt(Abs(user_val - 3)), F2_0)
        confidence_weight == FAdd(F0_6, FMul(importance, F0_4))
    IN  FMul(similarity, confidence_weight)

\* list.index(v): the first position of v, counted from 0
ListIndex(list, v) ==
    (CHOOSE i \in 1..Len(list) : list[i] = v /\ \A j \in 1..(i - 1) : list[j] # v) - 1

InList(list, v) == \E i \in 1..Len(list) : list[i] = v

\* 1 - (distance / max_distance) * 0.7
RatioScore(ratio) == InOrder(<<ratio, FSub(F1_0, FMul(ratio, F0_7))>>)

DistanceScore(distance, max_distance) ==
    RatioScore(FDiv(FromInt(distance), FromInt(max_distance)))

\* score_categorical_distance with len(order_list) as the maximal distance
CatSimOffByOne(user_pref, prog_val, order_list) ==
    IF ~InList(order_list, user_pref) \/ ~InList(order_list, prog_val) THEN F0_5
    ELSE DistanceScore(Abs(ListIndex(order_list, user_pref)
                           - ListIndex(order_list, prog_val)),
                       Len(order_list))

IndexScore(user_idx, prog_idx, max_distance) ==
    IF max_distance = 0 THEN F1_0
    ELSE DistanceScore(Abs(user_idx - prog_idx), max_distance)

score_categorical_distance(user_pref, prog_val, order_list) ==
    IF ~InList(order_list, user_pref) \/ ~InList(order_list, prog_val) THEN F0_5
    ELSE IndexScore(ListIndex(order_list, user_pref), ListIndex(order_list, prog_val),
                    Len(order_list) - 1)

(***************************************************************************)
(* Static tables of match_me.py.                                           *)
(***************************************************************************)
\* INTEREST_MAPPINGS: the (key_term, category) items in insertion order
INTEREST_MAPPINGS == <<
    <<<<"m","e","c","h","a","n","i","c","a","l"," ","e","n","g","i","n","e","e","r","i","n","g">>, <<"E","n","g","i","n","e","e","r","i","n","g">>>>,
    <<<<"c","i","v","i","l"," ","e","n","g","i","n","e","e","r","i","n","g">>, <<"E","n","g","i","n","e","e","r","i","n","g">>>>,
    <<<<"e","l","e","c","t","r","i","c","a","l"," ","e","n","g","i","n","e","e","r","i","n","g">>, <<"E","n","g","i","n","e","e","r","i","n","g">>>>,
    <<<<"r","o","b","o","t","i","c","s">>, <<"E","n","g","i","n","e","e","r","i","n","g">>>>,
    <<<<"m","e","c","h","a","t","r","o","n","i","c","s">>, <<"E","n","g","i","n","e","e","r","i","n","g">>>>,
    <<<<"a","u","t","o","m","o","t","i","v","e">>, <<"E","n","g","i","n","e","e","r","i","n","g">>>>,
    <<<<"a","e","r","o","s","p","a","c","e">>, <<"E","n","g","i","n","e","e","r","i","n","g">>>>,
    <<<<"s","t","r","u","c","t","u","r","a","l"," ","d","e","s","i","g","n">>, <<"E","n","g","i","n","e","e","r","i","n","g">>>>,
    <<<<"m","a","n","u","f","a","c","t","u","r","i","n","g">>, <<"E","n","g","i","n","e","e","r","i","n","g">>>>,
    <<<<"p","r","o","d","u","c","t"," ","d","e","v","e","l","o","p","m","e","n","t">>, <<"E","n","g","i","n","e","e","r","i","n","g">>>>,
    <<<<"e","n","g","i","n","e","e","r","i","n","g"," ","d","e","s","i","g","n">>, <<"E","n","g","i","n","e","e","r","i","n","g">>>>,
    <<<<"p","r","o","g","r","a","m","m","i","n","g">>, <<"C","S","/","M","a","t","h">>>>,
    <<<<"s","o","f","t","w","a","r","e"," ","d","e","v","e","l","o","p","m","e","n","t">>, <<"C","S","/","M","a","t","h">>>>,
    <<<<"a","l","g","o","r","i","t","h","m","s">>, <<"C","S","/","M","a","t","h">>>>,
    <<<<"d","a","t","a"," ","s","c","i","e","n","c","e">>, <<"C","S","/","M","a","t","h">>>>,
    <<<<"m","a","t","h","e","m","a","t","i","c","s">>, <<"C","S","/","M","a","t","h">>>>,
    <<<<"s","t","a","t","i","s","t","i","c","s">>, <<"C","S","/","M","a","t","h">>>>,
    <<<<"c","o","m","p","u","t","e","r"," ","s","c","i","e","n","c","e">>, <<"C","S","/","M","a","t","h">>>>,
    <<<<"w","e","b"," ","d","e","v","e","l","o","p","m","e","n","t">>, <<"C","S","/","M","a","t","h">>>>,
    <<<<"a","r","t","i","f","i","c","i","a","l"," ","i","n","t","e","l","l","i","g","e","n","c","e">>, <<"C","S","/","M","a","t","h">>>>,
    <<<<"m","a","c","h","i","n","e"," ","l","e","a","r","n","i","n","g">>, <<"C","S","/","M","a","t","h">>>>,
    <<<<"c","r","y","p","t","o","g","r","a","p","h","y">>, <<"C","S","/","M","a","t","h">>>>,
    <<<<"c","y","b","e","r","s","e","c","u","r","i","t","y">>, <<"C","S","/","M","a","t","h">>>>,
    <<<<"c","o","m","p","u","t","a","t","i","o","n","a","l">>, <<"C","S","/","M","a","t","h">>>>,
    <<<<"f","i","n","a","n","c","e">>, <<"B","u","s","i","n","e","s","s">>>>,
    <<<<"m","a","r","k","e","t","i","n","g">>, <<"B","u","s","i","n","e","s","s">>>>,
    <<<<"e","n","t","r","e","p","r","e","n","e","u","r","s","h","i","p">>, <<"B","u","s","i","n","e","s","s">>>>,
    <<<<"e","c","o","n","o","m","i","c","s">>, <<"B","u","s","i","n","e","s","s">>>>,
    <<<<"a","c","c","o","u","n","t","i","n","g">>, <<"B","u","s","i","n","e","s","s">>>>,
    <<<<"m","a","n","a","g","e","m","e","n","t">>, <<"B","u","s","i","n","e","s","s">>>>,
    <<<<"b","u","s","i","n","e","s","s">>, <<"B","u","s","i","n","e","s","s">>>>,
    <<<<"c","o","n","s","u","l","t","i","n","g">>, <<"B","u","s","i","n","e","s","s">>>>,
    <<<<"h","u","m","a","n"," ","r","e","s","o","u","r","c","e","s">>, <<"B","u","s","i","n","e","s","s">>>>,
    <<<<"s","a","l","e","s">>, <<"B","u","s","i","n","e","s","s">>>>,
    <<<<"i","n","v","e","s","t","m","e","n","t">>, <<"B","u","s","i","n","e","s","s">>>>,
    <<<<"s","t","o","c","k"," ","m","a","r","k","e","t">>, <<"B","u","s","i","n","e","s","s">>>>,
    <<<<"t","a","x","a","t","i","o","n">>, <<"B","u","s","i","n","e","s","s">>>>,
    <<<<"a","u","d","i","t">>, <<"B","u","s","i","n","e","s","s">>>>,
    <<<<"l","i","t","e","r","a","t","u","r","e">>, <<"A","r","t","s","/","H","u","m","a","n","i","t","i","e","s">>>>,
    <<<<"p","h","i","l","o","s","o","p","h","y">>, <<"A","r","t","s","/","H","u","m","a","n","i","t","i","e","s">>>>,
    <<<<"h","i","s","t","o","r","y">>, <<"A","r","t","s","/","H","u","m","a","n","i","t","i","e","s">>>>,
    <<<<"l","a","n","g","u","a","g","e","s">>, <<"A","r","t","s","/","H","u","m","a","n","i","t","i","e","s">>>>,
    <<<<"w","r","i","t","i","n","g">>, <<"A","r","t","s","/","H","u","m","a","n","i","t","i","e","s">>>>,
    <<<<"c","u","l","t","u","r","a","l"," ","s","t","u","d","i","e","s">>, <<"A","r","t","s","/","H","u","m","a","n","i","t","i","e","s">>>>,
    <<<<"a","r","t"," ","h","i","s","t","o","r","y">>, <<"A","r","t","s","/","H","u","m","a","n","i","t","i","e","s">>>>,
    <<<<"m","u","s","i","c">>, <<"A","r","t","s","/","H","u","m","a","n","i","t","i","e","s">>>>,
    <<<<"f","i","l","m">>, <<"A","r","t","s","/","H","u","m","a","n","i","t","i","e","s">>>>,
    <<<<"t","h","e","a","t","r","e">>, <<"A","r","t","s","/","H","u","m","a","n","i","t","i","e","s">>>>,
    <<<<"c","r","e","a","t","i","v","e"," ","w","r","i","t","i","n","g">>, <<"A","r","t","s","/","H","u","m","a","n","i","t","i","e","s">>>>,
    <<<<"l","i","n","g","u","i","s","t","i","c","s">>, <<"A","r","t","s","/","H","u","m","a","n","i","t","i","e","s">>>>,
    <<<<"a","n","t","h","r","o","p","o","l","o","g","y">>, <<"A","r","t","s","/","H","u","m","a","n","i","t","i","e","s">>>>,
    <<<<"a","r","c","h","a","e","o","l","o","g","y">>, <<"A","r","t","s","/","H","u","m","a","n","i","t","i","e","s">>>>,
    <<<<"b","i","o","l","o","g","y">>, <<"S","c","i","e","n","c","e","s">>>>,
    <<<<"c","h","e","m","i","s","t","r","y">>, <<"S","c","i","e","n","c","e","s">>>>,
    <<<<"p","h","y","s","i","c","s">>, <<"S","c","i","e","n","c","e","s">>>>,
    <<<<"e","n","v","i","r","o","n","m","e","n","t","a","l"," ","s","c","i","e","n","c","e">>, <<"S","c","i","e","n","c","e","s">>>>,
    <<<<"a","s","t","r","o","n","o","m","y">>, <<"S","c","i","e","n","c","e","s">>>>,
    <<<<"e","a","r","t","h"," ","s","c","i","e","n","c","e","s">>, <<"S","c","i","e","n","c","e","s">>>>,
    <<<<"g","e","o","l","o","g","y">>, <<"S","c","i","e","n","c","e","s">>>>,
    <<<<"b","i","o","c","h","e","m","i","s","t","r","y">>, <<"S","c","i","e","n","c","e","s">>>>,
    <<<<"m","o","l","e","c","u","l","a","r"," ","b","i","o","l","o","g","y">>, <<"S","c","i","e","n","c","e","s">>>>,
    <<<<"g","e","n","e","t","i","c","s">>, <<"S","c","i","e","n","c","e","s">>>>,
    <<<<"e","c","o","l","o","g","y">>, <<"S","c","i","e","n","c","e","s">>>>,
    <<<<"m","a","r","i","n","e"," ","b","i","o","l","o","g","y">>, <<"S","c","i","e","n","c","e","s">>>>,
    <<<<"f","o","r","e","n","s","i","c"," ","s","c","i","e","n","c","e">>, <<"S","c","i","e","n","c","e","s">>>>,
    <<<<"m","e","d","i","c","i","n","e">>, <<"H","e","a","l","t","h">>>>,
    <<<<"n","u","r","s","i","n","g">>, <<"H","e","a","l","t","h">>>>,
    <<<<"k","i","n","e","s","i","o","l","o","g","y">>, <<"H","e","a","l","t","h">>>>,
    <<<<"p","u","b","l","i","c"," ","h","e","a","l","t","h">>, <<"H","e","a","l","t","h">>>>,
    <<<<"n","u","t","r","i","t","i","o","n">>, <<"H","e","a","l","t","h">>>>,
    <<<<"p","s","y","c","h","o","l","o","g","y">>, <<"H","e","a","l","t","h">>>>,
    <<<<"h","e","a","l","t","h","c","a","r","e">>, <<"H","e","a","l","t","h">>>>,
    <<<<"a","n","a","t","o","m","y">>, <<"H","e","a","l","t","h">>>>,
    <<<<"p","h","y","s","i","o","l","o","g","y">>, <<"H","e","a","l","t","h">>>>,
    <<<<"p","h","a","r","m","a","c","y">>, <<"H","e","a","l","t","h">>>>,
    <<<<"b","i","o","m","e","d","i","c","a","l">>, <<"H","e","a","l","t","h">>>>,
    <<<<"d","e","n","t","i","s","t","r","y">>, <<"H","e","a","l","t","h">>>>,
    <<<<"t","h","e","r","a","p","y">>, <<"H","e","a","l","t","h">>>>,
    <<<<"m","e","n","t","a","l"," ","h","e","a","l","t","h">>, <<"H","e","a","l","t","h">>>>,
    <<<<"p","s","y","c","h","i","a","t","r","y">>, <<"H","e","a","l","t","h">>>>,
    <<<<"r","e","h","a","b","i","l","i","t","a","t","i","o","n">>, <<"H","e","a","l","t","h">>>>
>>

\* COURSE_MAPPINGS: the (key_term, category) items in insertion order
COURSE_MAPPINGS == <<
    <<<<"c","a","l","c","u","l","u","s">>, <<"M","a","t","h">>>>,
    <<<<"a","l","g","e","b","r","a">>, <<"M","a","t","h">>>>,
    <<<<"s","t","a","t","i","s","t","i","c","s">>, <<"M","a","t","h">>>>,
    <<<<"p","h","y","s","i","c","s">>, <<"P","h","y","s","i","c","s">>>>,
    <<<<"b","i","o","l","o","g","y">>, <<"B","i","o","l","o","g","y">>>>,
    <<<<"c","h","e","m","i","s","t","r","y">>, <<"C","h","e","m","i","s","t","r","y">>>>,
    <<<<"c","o","m","p","u","t","e","r"," ","p","r","o","g","r","a","m","m","i","n","g">>, <<"C","o","m","p","u","t","e","r"," ","S","c","i","e","n","c","e">>>>,
    <<<<"b","u","s","i","n","e","s","s"," ","s","t","u","d","i","e","s">>, <<"B","u","s","i","n","e","s","s">>>>,
    <<<<"e","c","o","n","o","m","i","c","s">>, <<"B","u","s","i","n","e","s","s">>>>,
    <<<<"e","n","g","l","i","s","h">>, <<"L","a","n","g","u","a","g","e"," ","A","r","t","s">>>>,
    <<<<"l","i","t","e","r","a","t","u","r","e">>, <<"L","a","n","g","u","a","g","e"," ","A","r","t","s">>>>,
    <<<<"c","r","e","a","t","i","v","e"," ","w","r","i","t","i","n","g">>, <<"L","a","n","g","u","a","g","e"," ","A","r","t","s">>>>,
    <<<<"h","i","s","t","o","r","y">>, <<"H","i","s","t","o","r","y">>>>,
    <<<<"g","e","o","g","r","a","p","h","y">>, <<"G","e","o","g","r","a","p","h","y">>>>,
    <<<<"a","r","t">>, <<"V","i","s","u","a","l"," ","A","r","t","s">>>>,
    <<<<"v","i","s","u","a","l"," ","a","r","t","s">>, <<"V","i","s","u","a","l"," ","A","r","t","s">>>>,
    <<<<"d","e","s","i","g","n">>, <<"V","i","s","u","a","l"," ","A","r","t","s">>>>,
    <<<<"s","h","o","p"," ","c","l","a","s","s">>, <<"A","u","t","o","s","h","o","p">>>>,
    <<<<"a","u","t","o"," ","m","e","c","h","a","n","i","c","s">>, <<"A","u","t","o","s","h","o","p">>>>
>>

\* name_hints of detect_program_type: the (category, hints) items in insertion order
name_hints == <<
    <<<<"E","n","g","i","n","e","e","r","i","n","g">>, <<<<"e","n","g","i","n","e","e","r","i","n","g">>,
        <<"m","e","c","h","a","n","i","c","a","l">>,
        <<"e","l","e","c","t","r","i","c","a","l">>,
        <<"c","i","v","i","l">>,
        <<"c","h","e","m","i","c","a","l">>>>>>,
    <<<<"C","S","/","M","a","t","h">>, <<<<"c","o","m","p","u","t","e","r">>,
        <<"s","o","f","t","w","a","r","e">>,
        <<"m","a","t","h">>,
        <<"d","a","t","a"," ","s","c","i","e","n","c","e">>,
        <<"c","o","m","p","u","t","i","n","g">>>>>>,
    <<<<"B","u","s","i","n","e","s","s">>, <<<<"b","u","s","i","n","e","s","s">>,
        <<"c","o","m","m","e","r","c","e">>,
        <<"m","a","n","a","g","e","m","e","n","t">>,
        <<"f","i","n","a","n","c","e">>,
        <<"a","c","c","o","u","n","t","i","n","g">>,
        <<"m","a","r","k","e","t","i","n","g">>>>>>,
    <<<<"A","r","t","s","/","H","u","m","a","n","i","t","i","e","s">>, <<<<"a","r","t","s">>,
        <<"h","u","m","a","n","i","t","i","e","s">>,
        <<"e","n","g","l","i","s","h">>,
        <<"p","h","i","l","o","s","o","p","h","y">>,
        <<"h","i","s","t","o","r","y">>,
        <<"m","u","s","i","c">>>>>>,
    <<<<"S","c","i","e","n","c","e","s">>, <<<<"s","c","i","e","n","c","e">>,
        <<"b","i","o","l","o","g","y">>,
        <<"c","h","e","m","i","s","t","r","y">>,
        <<"p","h","y","s","i","c","s">>,
        <<"e","n","v","i","r","o","n","m","e","n","t","a","l">>>>>>,
    <<<<"H","e","a","l","t","h">>, <<<<"h","e","a","l","t","h">>,
        <<"n","u","r","s","i","n","g">>,
        <<"m","e","d","i","c","i","n","e">>,
        <<"k","i","n","e","s","i","o","l","o","g","y">>,
        <<"p","h","a","r","m","a","c","y">>>>>>
>>

\* PROGRAM_TYPE_WEIGHTS: the (category, {trait: multiplier}) items
PROGRAM_TYPE_WEIGHTS == <<
    <<<<"E","n","g","i","n","e","e","r","i","n","g">>, [math_enjoyment |-> F1_8, learning_style |-> F1_4, coop_importance |-> F1_3, creativity_orientation |-> F1_0]>>,
    <<<<"C","S","/","M","a","t","h">>, [math_enjoyment |-> F1_7, collaboration_preference |-> F1_2, coop_importance |-> F1_3]>>,
    <<<<"B","u","s","i","n","e","s","s">>, [collaboration_preference |-> F1_5, career_certainty |-> F1_3, coop_importance |-> F1_4]>>,
    <<<<"A","r","t","s","/","H","u","m","a","n","i","t","i","e","s">>, [creativity_orientation |-> F1_8, math_enjoyment |-> F0_7, research_importance |-> F1_3]>>,
    <<<<"S","c","i","e","n","c","e","s">>, [research_importance |-> F1_6, math_enjoyment |-> F1_4, learning_style |-> F1_3]>>,
    <<<<"H","e","a","l","t","h">>, [collaboration_preference |-> F1_4, research_importance |-> F1_3, career_certainty |-> F1_2]>>
>>

(***************************************************************************)
(* Dicts and lists.                                                        *)
(***************************************************************************)
\* d.get(k, dflt)
Get(d, k, dflt) == IF k \in DOMAIN d THEN d[k] ELSE dflt

\* {f(x) for x in list} with f = normalize_string
NormSet(list) == {normalize_string(list[i]) : i \in 1..Len(list)}

\* counts[cat] = counts.get(cat, 0) + n on a dict kept as its items in insertion order
CountsAdd(counts, cat, n) ==
    IF \E i \in 1..Len(counts) : counts[i][1] = cat
    THEN [i \in 1..Len(counts) |->
            IF counts[i][1] = cat THEN <<cat, counts[i][2] + n>> ELSE counts[i]]
    ELSE Append(counts, <<cat, n>>)

(***************************************************************************)
(* Program-type detector.                                                  *)
(***************************************************************************)
\* the least position in a nonempty set of positions
FirstOf(hits) == CHOOSE j \in hits : \A h \in hits : j <= h

\* the inner loop of detect_program_type: the category of the first key term
\* of the mappings that the text contains; None when there is none
KeyTermCategory(hits, mappings) ==
    IF hits = {} THEN None ELSE mappings[FirstOf(hits)][2]

FirstCategoryIn(text, mappings) ==
    KeyTermCategory({j \in 1..Len(mappings) : StrContains(text, mappings[j][1])},
                    mappings)

CountCategory(counts, category) ==
    IF category = None THEN counts ELSE CountsAdd(counts, category, 1)

\* the loop over the interests of detect_program_type
RECURSIVE CountInterests(_, _, _)
CountInterestsNext(interests, i, added) ==
    InOrder(<<added, CountInterests(interests, i + 1, added)>>)

CountInterests(interests, i, counts) ==
    IF i > Len(interests) THEN counts
    ELSE CountInterestsNext(interests, i,
            CountCategory(counts,
                          FirstCategoryIn(StrLower(interests[i]), INTEREST_MAPPINGS)))

\* hint is <<category, hints>>: the hints found in the name count twice
CountHits(counts, category, hits) ==
    IF hits = 0 THEN counts ELSE CountsAdd(counts, category, 2 * hits)

CountHint(counts, program_name, hint) ==
    CountHits(counts, hint[1],
              Cardinality({h \in 1..Len(hint[2]) : StrContains(program_name, hint[2][h])}))

\* the loop over name_hints of detect_program_type
RECURSIVE CountNameHints(_, _, _)
CountNameHintsNext(program_name, c, added) ==
    InOrder(<<added, CountNameHints(program_name, c + 1, added)>>)

CountNameHints(program_name, c, counts) ==
    IF c > Len(name_hints) THEN counts
    ELSE CountNameHintsNext(program_name, c, CountHint(counts, program_name, name_hints[c]))

\* max(category_counts, key=category_counts.get): the first key of maximal count
MaxKey(counts) ==
    LET i == CHOOSE i \in 1..Len(counts) :
                /\ \A j \in 1..Len(counts) : counts[j][2] <= counts[i][2]
                /\ \A j \in 1..(i - 1) : counts[j][2] < counts[i][2]
    IN  counts[i][1]

TypeOfCounts(category_counts) ==
    IF category_counts = <<>> THEN None ELSE MaxKey(category_counts)

detect_program_type(program) ==
    TypeOfCounts(CountNameHints(StrLower(Get(program, "program", <<>>)), 1,
        CountInterests(Get(Get(program, "academic", <<>>), "interests", <<>>), 1, <<>>)))

(***************************************************************************)
(* Interest and course scores.  The loop state is <<total_score, matched>>.*)
(***************************************************************************)
\* the positions of the mappings whose key_term is in the item and whose
\* category the user has, normalized or raw
MappedHits(item_normalized, user_items, user_items_normalized, mappings) ==
    {j \in 1..Len(mappings) :
        /\ StrContains(item_normalized, mappings[j][1])
        /\ \/ normalize_string(mappings[j][2]) \in user_items_normalized
           \/ InList(user_items, mappings[j][2])}

\* total_score += w and matched.add(c), if c is not matched yet
AddOnce(st, c, w) ==
    IF c \notin st[2] THEN <<FAdd(st[1], w), st[2] \cup {c}>> ELSE st

InterestCategory(category, category_normalized, user_interests_normalized, st) ==
    IF category_normalized \in user_interests_normalized
    THEN AddOnce(st, category_normalized, F0_75)
    ELSE AddOnce(st, category, F0_75)

InterestHit(hits, mappings, user_interests_normalized, st) ==
    IF hits = {} THEN st
    ELSE InterestCategory(mappings[FirstOf(hits)][2],
                          normalize_string(mappings[FirstOf(hits)][2]),
                          user_interests_normalized, st)

\* the inner loop of enhanced_interest_score over the mappings: it breaks at
\* the first item whose key_term is in the interest and whose category the
\* user has, normalized or raw
InterestMapped(interest_normalized, user_interests, user_interests_normalized, st, mappings) ==
    InterestHit(MappedHits(interest_normalized, user_interests,
                           user_interests_normalized, mappings),
                mappings, user_interests_normalized, st)

InterestItem(interest_normalized, user_interests, user_interests_normalized, st) ==
    IF interest_normalized \in user_interests_normalized
    THEN <<FAdd(st[1], F1_0), st[2] \cup {interest_normalized}>>
    ELSE InterestMapped(interest_normalized, user_interests,
                        user_interests_normalized, st, INTEREST_MAPPINGS)

\* the loop of enhanced_interest_score over program_interests, from item i
RECURSIVE InterestLoop(_, _, _, _, _)
InterestNext(program_interests, user_interests, user_interests_normalized, next, i) ==
    InOrder(<<next, InterestLoop(program_interests, user_interests,
                                 user_interests_normalized, next, i + 1)>>)

InterestLoop(program_interests, user_interests, user_interests_normalized, st, i) ==
    IF i > Len(program_interests) THEN st
    ELSE InterestNext(program_interests, user_interests, user_interests_normalized,
                      InterestItem(normalize_string(program_interests[i]),
                                   user_interests, user_interests_normalized, st), i)

\* st is <<total_score, matched_categories>> after the loop
InterestResult(st, max_possible) ==
    IF IsZero(st[1]) THEN FZero
    ELSE FMin(FAdd(FMin(FDiv(st[1], FromInt(max_possible)), F1_0),
                   FMin(FMul(FromInt(Cardinality(st[2])), F0_05), F0_15)),
              F1_0)

enhanced_interest_score(user_interests, program_interests) ==
    IF user_interests = <<>> THEN FZero
    ELSE InterestResult(InterestLoop(program_interests, user_interests,
                                     NormSet(user_interests), <<FZero, {}>>, 1),
                        Len(user_interests))

CourseHit(hits, mappings, st) ==
    IF hits = {} THEN st
    ELSE AddOnce(st, normalize_string(mappings[FirstOf(hits)][2]), F0_8)

\* the inner loop of enhanced_course_score over the mappings: it breaks at
\* the first item whose key_term is in the course and whose category the user
\* has, normalized or raw
CourseMapped(course_normalized, user_courses, user_courses_normalized, st, mappings) ==
    CourseHit(MappedHits(course_normalized, user_courses, user_courses_normalized,
                         mappings),
              mappings, st)

CourseItem(course_normalized, user_courses, user_courses_normalized, st) ==
    IF course_normalized \in user_courses_normalized
    THEN <<FAdd(st[1], F1_0), st[2] \cup {course_normalized}>>
    ELSE CourseMapped(course_normalized, user_courses, user_courses_normalized, st,
                      COURSE_MAPPINGS)

\* the loop of enhanced_course_score over program_courses, from item i
RECURSIVE CourseLoop(_, _, _, _, _)
CourseNext(program_courses, user_courses, user_courses_normalized, next, i) ==
    InOrder(<<next, CourseLoop(program_courses, user_courses,
                               user_courses_normalized, next, i + 1)>>)

CourseLoop(program_courses, user_courses, user_courses_normalized, st, i) ==
    IF i > Len(program_courses) THEN st
    ELSE CourseNext(program_courses, user_courses, user_courses_normalized,
                    CourseItem(normalize_string(program_courses[i]),
                               user_courses, user_courses_normalized, st), i)

CourseResult(st, max_len) == FMin(FDiv(st[1], FromInt(max_len)), F1_0)

enhanced_course_score(user_courses, program_courses) ==
    IF user_courses = <<>> \/ program_courses = <<>> THEN FZero
    ELSE CourseResult(CourseLoop(program_courses, user_courses,
                                 NormSet(user_courses), <<FZero, {}>>, 1),
                      IF Len(user_courses) > 1 THEN Len(user_courses) ELSE 1)

(***************************************************************************)
(* Constants of the dimension scorers.                                     *)
(***************************************************************************)

\* keys of score_academic
keys == <<"learning_style", "first_year_specialization", "coop_importance",
          "research_importance", "creativity_orientation", "career_certainty",
          "math_enjoyment", "collaboration_preference">>

class_size_order == <<<<"<"," ","6","0">>, <<"6","0","-","2","0","0">>, <<"2","0","0","+">>>>

setting_order == <<<<"u","r","b","a","n">>, <<"s","u","b","u","r","b","a","n">>, <<"s","m","a","l","l"," ","t","o","w","n">>, <<"r","u","r","a","l">>>>

urban_suburban == {<<"u","r","b","a","n">>, <<"s","u","b","u","r","b","a","n">>}

rural_small == {<<"s","m","a","l","l"," ","t","o","w","n">>, <<"r","u","r","a","l">>, <<"s","m","a","l","l","-","t","o","w","n">>}

campus_size_order == <<<<"S","m","a","l","l">>, <<"M","e","d","i","u","m">>, <<"L","a","r","g","e">>>>

StrMedium == <<"M","e","d","i","u","m">>

Str60_200 == <<"6","0","-","2","0","0">>

StrNone == <<"n","o","n","e">>

\* sum(list) of floats: 0 + x1 + x2 + ... from left to right (CPython up to 3.11)
RECURSIVE FSumFrom(_, _, _)
FSumFrom(list, i, acc) ==
    IF i > Len(list) THEN acc
    ELSE IF IsZero(acc) THEN FSumFrom(list, i + 1, list[i])
    ELSE FSumFrom(list, i + 1, FAdd(acc, list[i]))

FSum(list) == FSumFrom(list, 1, FZero)

\* max(n, 1) for an int
Max1(n) == IF n > 1 THEN n ELSE 1

\* the base weights dict of score_academic, given the user's CO, UR and CR
BaseWeights(CO, UR, CR) ==
    [learning_style            |-> F1_2,
     first_year_specialization |-> F1_0,
     coop_importance           |-> IF CO >= 4 THEN F1_5 ELSE F1_0,
     research_importance       |-> IF UR >= 4 THEN F1_5 ELSE F1_0,
     creativity_orientation    |-> IF CR >= 4 THEN F1_2 ELSE F1_0,
     career_certainty          |-> F1_0,
     math_enjoyment            |-> F1_3,
     collaboration_preference  |-> F1_0]

\* PROGRAM_TYPE_WEIGHTS[program_type] if program_type is a key, else the empty dict
TypeWeights(program_type) ==
    IF \E t \in 1..Len(PROGRAM_TYPE_WEIGHTS) : PROGRAM_TYPE_WEIGHTS[t][1] = program_type
    THEN PROGRAM_TYPE_WEIGHTS[CHOOSE t \in 1..Len(PROGRAM_TYPE_WEIGHTS) :
                                 PROGRAM_TYPE_WEIGHTS[t][1] = program_type][2]
    ELSE <<>>

\* weights after `weights[key] *= multiplier` for every item of type_weights
MultipliedWeights(weights, type_weights) ==
    [k \in DOMAIN weights |->
        IF k \in DOMAIN type_weights THEN FMul(weights[k], type_weights[k])
        ELSE weights[k]]

AdjustedWeights(weights, program_type) ==
    MultipliedWeights(weights, TypeWeights(program_type))

(***************************************************************************)
(* The parts that the scorers of api.py and of match_me.py have in common: *)
(* the two files hold the same statements over differently fetched answers.*)
(***************************************************************************)
\* alt_score, given the user's ALT and the normalized alternatives of the program
AltScore(ALT, prog_alt) ==
    IF ALT # <<>>
    THEN FMul(FDiv(FromInt(Cardinality(prog_alt \cap NormSet(ALT))),
                   FromInt(Max1(Len(ALT)))), F0_1)
    ELSE FZero

\* total_weight = sum(weights.values())
TotalWeight(weights) == FSum([j \in 1..Len(keys) |-> weights[keys[j]]] \o <<>>)

\* num_scores: the weighted similarity of every trait of keys, vals the user's
NumScores(academic, vals, weights) ==
    [j \in 1..Len(keys) |->
        FMul(calculate_trait_score_with_confidence(vals[j], Get(academic, keys[j], 3)),
             weights[keys[j]])] \o <<>>

\* num_score with the plain mean of the weighted similarities
NumScoreByCount(academic, vals, weights) ==
    FMul(FDiv(FSum(NumScores(academic, vals, weights)), FromInt(Len(keys))), F0_3)

\* num_score = (sum(num_scores) / total_weight) * 0.3
NumScore(academic, vals, weights) ==
    FMul(FDiv(FSum(NumScores(academic, vals, weights)), TotalWeight(weights)), F0_3)

\* return i_score + lc_score + num_score + alt_score, the parts in the order
\* of their statements
AcademicTotal(i_score, lc_score, alt_score, num_score) ==
    InOrder(<<i_score, lc_score, alt_score, num_score,
              FAdd(FAdd(FAdd(i_score, lc_score), num_score), alt_score)>>)

\* setting_score with the group test ahead of the test for the order list
MappedSettingScoreGroupFirst(user_setting, prog_setting, user_setting_mapped, prog_setting_mapped) ==
    IF user_setting \in urban_suburban /\ prog_setting \in urban_suburban
    THEN F0_6
    ELSE IF user_setting \in rural_small /\ prog_setting \in rural_small
    THEN F0_6
    ELSE IF InList(setting_order, user_setting_mapped)
            /\ InList(setting_order, prog_setting_mapped)
    THEN score_categorical_distance(user_setting_mapped, prog_setting_mapped,
                                    setting_order)
    ELSE F0_2

\* setting_score when the normalized settings differ
MappedSettingScore(user_setting, prog_setting, user_setting_mapped, prog_setting_mapped) ==
    IF InList(setting_order, user_setting_mapped)
       /\ InList(setting_order, prog_setting_mapped)
    THEN score_categorical_distance(user_setting_mapped, prog_setting_mapped,
                                    setting_order)
    ELSE IF user_setting \in urban_suburban /\ prog_setting \in urban_suburban
    THEN F0_6
    ELSE IF user_setting \in rural_small /\ prog_setting \in rural_small
    THEN F0_6
    ELSE F0_2

SettingScore(user_setting, prog_setting) ==
    IF user_setting = prog_setting THEN F1_0
    ELSE MappedSettingScore(user_setting, prog_setting,
                            StrReplace(user_setting, "-", " "),
                            StrReplace(prog_setting, "-", " "))

HousingScore(user_hs, hs_prog) ==
    IF hs_prog # {} /\ user_hs # {}
    THEN FDiv(FromInt(Cardinality(user_hs \cap hs_prog)), FromInt(Cardinality(user_hs)))
    ELSE IF user_hs = {} THEN F0_5
    ELSE F0_2

\* cps.capitalize() if cps else 'Medium'
CpsNormalized(cps) == IF ~Falsy(cps) THEN StrCapitalize(cps) ELSE StrMedium

CampusSizeScore(user_cps, prog_cps) ==
    score_categorical_distance(CpsNormalized(user_cps), CpsNormalized(prog_cps),
                               campus_size_order)

\* sum(scores) / len(scores)
CampusMean(scores) == FDiv(FSum(scores), FromInt(Len(scores)))

\* spt_score without the test for "none"
SportsScoreOfListed(user_spt, sp_prog) ==
    IF user_spt = {} THEN F1_0
    ELSE FDiv(FromInt(Cardinality(sp_prog \cap user_spt)),
              FromInt(Max1(Cardinality(user_spt))))

SportsScore(user_spt, sp_prog) ==
    IF StrNone \in user_spt \/ user_spt = {} THEN F1_0
    ELSE FDiv(FromInt(Cardinality(sp_prog \cap user_spt)),
              FromInt(Max1(Cardinality(user_spt))))

ClubsScore(user_clb, cl_prog) ==
    IF user_clb # {}
    THEN FDiv(FromInt(Cardinality(cl_prog \cap user_clb)), FromInt(Cardinality(user_clb)))
    ELSE F0_5

\* (ns_score + spt_score + cl_score + cev_score) / 4.0
SocialMean(ns_score, spt_score, cl_score, cev_score) ==
    FDiv(FAdd(FAdd(FAdd(ns_score, spt_score), cl_score), cev_score), F4_0)

\* {normalize_string(x) for x in S} if S else set()
NormOfSet(S) == {normalize_string(x) : x \in S}

(***************************************************************************)
(* float() and int() on a value of the request.  Such a value is the       *)
(* record [type |-> t, value |-> v] of its Python type and its value: an   *)
(* int for "int", a BOOLEAN for "bool", a binary64 for "float", a string   *)
(* for "str", and None, a list or a dict for "NoneType", "list" and        *)
(* "dict".  A conversion gives [raised |-> FALSE, value |-> v] or          *)
(* [raised |-> TRUE, exc |-> e].  Ints stay below 2^31 and floats finite:  *)
(* numerals of at most 9 digits, decimal exponents of at most 9.           *)
(***************************************************************************)
\* the number that the digits of s spell, whatever else s holds
DigitsValue(s) ==
    LET digits == <<"0","1","2","3","4","5","6","7","8","9">>
        Value(d) ==
            LET val[i \in 0..Len(d)] ==
                    IF i = 0 THEN 0
                    ELSE val[i - 1] * 10 + (CHOOSE k \in 0..9 : digits[k + 1] = d[i])
            IN  val[Len(d)]
    IN  Value(SelectSeq(s, LAMBDA c : c \in {"0","1","2","3","4","5","6","7","8","9"}))

\* the numeral that int() and float() read in the str s: surrounding
\* whitespace (that of strip() but U+001C to U+001F) dropped, a sign, then for int() a digit group (is_int), for
\* float() digit groups around an optional point and an optional exponent
\* (is_float), or inf, infinity or nan in any case (special).  A digit group
\* is a run of digits with single underscores allowed between digits.  The
\* numeral is (-1)^neg * mantissa * 10^scale.
ParseDecimal(s) ==
    LET DigitGroup(q) ==
            /\ q # <<>>
            /\ \A i \in 1..Len(q) : q[i] \in {"0","1","2","3","4","5","6","7","8","9","_"}
            /\ q[1] # "_" /\ q[Len(q)] # "_"
            /\ \A i \in 1..(Len(q) - 1) : q[i] = "_" => q[i + 1] # "_"
        \* the place of the first c in q, Len(q) + 1 when q holds none
        Index(q, c) ==
            CHOOSE i \in 1..(Len(q) + 1) :
                (i = Len(q) + 1 \/ q[i] = c) /\ \A k \in 1..(i - 1) : q[k] # c
        Numeral(neg, body, ip, fp, has_e, eneg, edigits) ==
            [neg |-> neg,
             special |-> body \in {<<"i","n","f">>, <<"i","n","f","i","n","i","t","y">>,
                                   <<"n","a","n">>},
             is_int |-> DigitGroup(body),
             is_float |-> /\ ip = <<>> \/ DigitGroup(ip)
                          /\ fp = <<>> \/ DigitGroup(fp)
                          /\ ip # <<>> \/ fp # <<>>
                          /\ ~has_e \/ DigitGroup(edigits),
             mantissa |-> DigitsValue(ip \o fp),
             scale |-> (IF ~has_e THEN 0
                        ELSE IF eneg THEN -DigitsValue(edigits) ELSE DigitsValue(edigits))
                       - Len(SelectSeq(fp, LAMBDA c : c # "_"))]
        Exponent(neg, body, ip, fp, has_e, expo) ==
            Numeral(neg, body, ip, fp, has_e, expo # <<>> /\ expo[1] = "-",
                    IF expo # <<>> /\ expo[1] \in {"+", "-"} THEN Tail(expo) ELSE expo)
        Mantissa(neg, body, mant, has_e, expo) ==
            Exponent(neg, body, SubSeq(mant, 1, Index(mant, ".") - 1),
                     SubSeq(mant, Index(mant, ".") + 1, Len(mant)), has_e, expo)
        Unsigned(neg, body) ==
            Mantissa(neg, body, SubSeq(body, 1, Index(body, "e") - 1),
                     Index(body, "e") <= Len(body),
                     SubSeq(body, Index(body, "e") + 1, Len(body)))
        Stripped(t) ==
            Unsigned(t # <<>> /\ t[1] = "-",
                     IF t # <<>> /\ t[1] \in {"+", "-"} THEN Tail(t) ELSE t)
        \* q without the whitespace around it, of which int() and float() do not
        \* count U+001C to U+001F
        Bare(q, keep) ==
            IF keep = {} THEN <<>>
            ELSE SubSeq(q, CHOOSE i \in keep : \A k \in keep : i <= k,
                        CHOOSE i \in keep : \A k \in keep : k <= i)
    IN  Stripped(StrLower(Bare(s, {i \in 1..Len(s) :
                                     \/ s[i] \notin Whitespace
                                     \/ s[i] \in {"", "", "", ""}})))

\* float(j).  The float of inf, infinity and nan is not finite: its value
\* is the parsed numeral itself, on which no arithmetic is defined.  A finite
\* numeral is rounded once: m * 10^scale / 1 or m / 10^(-scale).  The float of
\* an int n is that of the numeral n.
PyFloat(j) ==
    LET OfNumeral(p) ==
            IF p.special THEN [raised |-> FALSE, value |-> p]
            ELSE IF ~p.is_float THEN [raised |-> TRUE, exc |-> "ValueError"]
            ELSE [raised |-> FALSE,
                  value |-> FDiv(FromInt((IF p.neg THEN -p.mantissa ELSE p.mantissa)
                                             * 10^(IF p.scale > 0 THEN p.scale ELSE 0)),
                                 FromInt(10^(IF p.scale < 0 THEN -p.scale ELSE 0)))]
        OfInt(n) ==
            [neg |-> n < 0, special |-> FALSE, is_int |-> TRUE, is_float |-> TRUE,
             mantissa |-> IF n < 0 THEN -n ELSE n, scale |-> 0]
    IN  IF j.type = "float" THEN [raised |-> FALSE, value |-> j.value]
        ELSE IF j.type \notin {"int", "bool", "str"}
        THEN [raised |-> TRUE, exc |-> "TypeError"]
        ELSE OfNumeral(IF j.type = "str" THEN ParseDecimal(j.value)
                       ELSE IF j.type = "int" THEN OfInt(j.value)
                       ELSE OfInt(IF j.value THEN 1 ELSE 0))

\* int(j): a float is cut towards zero
PyInt(j) ==
    LET OfNumeral(p) ==
            IF ~p.is_int THEN [raised |-> TRUE, exc |-> "ValueError"]
            ELSE [raised |-> FALSE,
                  value |-> IF p.neg THEN -p.mantissa ELSE p.mantissa]
        Signed(x, q) ==
            IF IsZero(x) THEN 0
            ELSE IF x.sign = 1 THEN -(q[1] * W28 + q[2]) ELSE q[1] * W28 + q[2]
    IN  IF j.type = "int" THEN [raised |-> FALSE, value |-> j.value]
        ELSE IF j.type = "bool"
        THEN [raised |-> FALSE, value |-> IF j.value THEN 1 ELSE 0]
        ELSE IF j.type = "float"
        THEN [raised |-> FALSE,
              value |-> Signed(j.value, ShrPair(j.value.hi, j.value.lo, -j.value.exp))]
        ELSE IF j.type = "str" THEN OfNumeral(ParseDecimal(j.value))
        ELSE [raised |-> TRUE, exc |-> "TypeError"]

(***************************************************************************)
(* api.py: compute_matches and its nested scorers.  A is the record of the *)
(* locals that compute_matches unpacks from the request.                   *)
(***************************************************************************)
\* set(j) for a value of the request: the items of a list of str, the
\* characters of a str, the keys of a dict, which is held as the list of its
\* <<key, value>> pairs; nothing else can be iterated
PySet(j) ==
    IF j.type = "list"
    THEN [raised |-> FALSE, value |-> {j.value[i] : i \in 1..Len(j.value)}]
    ELSE IF j.type = "str"
    THEN [raised |-> FALSE, value |-> {<<j.value[i]>> : i \in 1..Len(j.value)}]
    ELSE IF j.type = "dict"
    THEN [raised |-> FALSE, value |-> {j.value[i][1] : i \in 1..Len(j.value)}]
    ELSE [raised |-> TRUE, exc |-> "TypeError"]

\* lines 32-55 of compute_matches: the float() of wa, wc and wso, the int()
\* of the ten traits and the set() of HS, SPT and CLB, each of the request's
\* value or of the default
ApiConverted(answers) ==
    [k \in {"wa", "wc", "wso", "LS", "SP", "CO", "UR", "CR", "CE", "ME", "CP", "HS",
            "NS", "SPT", "CLB", "CEV"} |->
        IF k \in {"wa", "wc", "wso"}
        THEN PyFloat(Get(answers, k, [type |-> "int", value |-> 1]))
        ELSE IF k \in {"HS", "SPT", "CLB"}
        THEN PySet(Get(answers, k, [type |-> "list", value |-> <<>>]))
        ELSE PyInt(Get(answers, k, [type |-> "int", value |-> 3]))]

\* lines 32-55 of compute_matches: the exception of the first float(), int()
\* or set() that raises, in the order of the statements, if one raises
ApiUnpackRaises(answers) ==
    LET order == <<"wa", "wc", "wso", "LS", "SP", "CO", "UR", "CR", "CE", "ME", "CP",
                   "HS", "NS", "SPT", "CLB", "CEV">>
        First(conv) ==
            IF \A i \in 1..Len(order) : ~conv[order[i]].raised THEN [raised |-> FALSE]
            ELSE [raised |-> TRUE,
                  exc |-> conv[order[CHOOSE i \in 1..Len(order) :
                                       /\ conv[order[i]].raised
                                       /\ \A k \in 1..(i - 1) : ~conv[order[k]].raised]].exc]
    IN  First(ApiConverted(answers))

\* lines 32-55 of compute_matches when no conversion raises: weights through
\* float(), traits through int(), HS, SPT and CLB through set(), the other
\* tag lists and the choices as they are
ApiUnpack(answers) ==
    LET Locals(conv) ==
            [wa  |-> conv["wa"].value,
             wc  |-> conv["wc"].value,
             wso |-> conv["wso"].value,
             W_TOTAL |-> FAdd(FAdd(conv["wa"].value, conv["wc"].value), conv["wso"].value),
             AA  |-> Get(answers, "AA", <<>>),
             LS  |-> conv["LS"].value,
             SP  |-> conv["SP"].value,
             CO  |-> conv["CO"].value,
             UR  |-> conv["UR"].value,
             CR  |-> conv["CR"].value,
             CE  |-> conv["CE"].value,
             LC  |-> Get(answers, "LC", <<>>),
             ME  |-> conv["ME"].value,
             CP  |-> conv["CP"].value,
             ALT |-> Get(answers, "ALT", <<>>),
             CSB |-> Get(answers, "CSB", <<>>),
             SET |-> Get(answers, "SET", <<>>),
             HS  |-> conv["HS"].value,
             CPS |-> Get(answers, "CPS", <<>>),
             NS  |-> conv["NS"].value,
             SPT |-> conv["SPT"].value,
             CLB |-> conv["CLB"].value,
             CEV |-> conv["CEV"].value]
    IN  Locals(ApiConverted(answers))

\* score_academic raises KeyError: p['academic']['interests']
api_score_academic_raises(p) ==
    "academic" \notin DOMAIN p \/ "interests" \notin DOMAIN p.academic

api_score_academic(p, A) ==
    AcademicTotal(
        FMul(enhanced_interest_score(A.AA, p.academic.interests), F0_4),
        FMul(enhanced_course_score(A.LC, Get(p.academic, "liked_hs_courses", <<>>)), F0_2),
        AltScore(A.ALT, NormSet(Get(p.academic, "alt_to_engineering", <<>>))),
        NumScore(p.academic, <<A.LS, A.SP, A.CO, A.UR, A.CR, A.CE, A.ME, A.CP>>,
                 AdjustedWeights(BaseWeights(A.CO, A.UR, A.CR), detect_program_type(p))))

\* score_campus raises KeyError: p['campus']
api_score_campus_raises(p) == "campus" \notin DOMAIN p

api_score_campus(p, A) ==
    CampusMean(
        <<score_categorical_distance(A.CSB, Get(p.campus, "class_size_bin", Str60_200),
                                     class_size_order),
          SettingScore(IF A.SET # <<>> THEN normalize_string(A.SET) ELSE <<>>,
                       normalize_string(Get(p.campus, "setting", <<>>))),
          HousingScore(IF A.HS # {} THEN NormOfSet(A.HS) ELSE {},
                       NormSet(Get(p.campus, "housing_styles", <<>>))),
          CampusSizeScore(IF A.CPS # <<>> THEN A.CPS ELSE StrMedium,
                          Get(p.campus, "campus_size", StrMedium))>>)

\* score_social raises KeyError: p['social']
api_score_social_raises(p) == "social" \notin DOMAIN p

api_score_social(p, A) ==
    SocialMean(
        calculate_trait_score_with_confidence(A.NS, Get(p.social, "night_scene", 3)),
        SportsScore(IF A.SPT # {} THEN NormOfSet(A.SPT) ELSE {},
                    NormSet(Get(p.social, "sports", <<>>))),
        ClubsScore(IF A.CLB # {} THEN NormOfSet(A.CLB) ELSE {},
                   NormSet(Get(p.social, "clubs", <<>>))),
        calculate_trait_score_with_confidence(A.CEV,
                                              Get(p.social, "cultural_event_freq", 3)))

(***************************************************************************)
(* match_me.py: the module-level scorers, which read user_answers directly *)
(***************************************************************************)
\* score_academic raises KeyError: p['academic']['interests']
score_academic_raises(p) ==
    "academic" \notin DOMAIN p \/ "interests" \notin DOMAIN p.academic

score_academic(p, user_answers) ==
    AcademicTotal(
        FMul(enhanced_interest_score(user_answers.AA, p.academic.interests), F0_4),
        FMul(enhanced_course_score(user_answers.LC,
                                   Get(p.academic, "liked_hs_courses", <<>>)), F0_2),
        AltScore(user_answers.ALT, NormSet(Get(p.academic, "alt_to_engineering", <<>>))),
        NumScore(p.academic,
                 <<user_answers.LS, user_answers.SP, user_answers.CO, user_answers.UR,
                   user_answers.CR, user_answers.CE, user_answers.ME, user_answers.CP>>,
                 AdjustedWeights(
                     BaseWeights(user_answers.CO, user_answers.UR, user_answers.CR),
                     detect_program_type(p))))

\* score_campus raises KeyError: p['campus']
score_campus_raises(p) == "campus" \notin DOMAIN p

score_campus(p, user_answers) ==
    CampusMean(
        <<score_categorical_distance(user_answers.CSB,
                                     Get(p.campus, "class_size_bin", Str60_200),
                                     class_size_order),
          SettingScore(normalize_string(Get(user_answers, "SET", <<>>)),
                       normalize_string(Get(p.campus, "setting", <<>>))),
          HousingScore(NormSet(Get(user_answers, "HS", <<>>)),
                       NormSet(Get(p.campus, "housing_styles", <<>>))),
          CampusSizeScore(Get(user_answers, "CPS", StrMedium),
                          Get(p.campus, "campus_size", StrMedium))>>)

\* score_social raises KeyError: p['social']
score_social_raises(p) == "social" \notin DOMAIN p

score_social(p, user_answers) ==
    SocialMean(
        calculate_trait_score_with_confidence(user_answers.NS,
                                              Get(p.social, "night_scene", 3)),
        SportsScore(NormSet(Get(user_answers, "SPT", <<>>)),
                    NormSet(Get(p.social, "sports", <<>>))),
        ClubsScore(NormSet(Get(user_answers, "CLB", <<>>)),
                   NormSet(Get(p.social, "clubs", <<>>))),
        calculate_trait_score_with_confidence(user_answers.CEV,
                                              Get(p.social, "cultural_event_freq", 3)))

(***************************************************************************)
(* Inputs: catalog entities (the items of program_profiles.json) and       *)
(* requests (the JSON body of /api/match, the answers of the quiz).        *)
(***************************************************************************)
\* an entity that carries every attribute
PFull ==
    [uni |-> <<"U","1">>,
     program |-> <<"M","e","c","h","a","n","i","c","a","l"," ","E","n","g","i","n","e","e","r","i","n","g">>,
     academic |->
        [interests |-> <<<<"R","o","b","o","t","i","c","s">>>>,
         liked_hs_courses |-> <<<<"C","a","l","c","u","l","u","s">>>>,
         alt_to_engineering |-> <<<<"P","h","y","s","i","c","s">>>>,
         learning_style |-> 1,
         first_year_specialization |-> 1,
         coop_importance |-> 1,
         research_importance |-> 1,
         creativity_orientation |-> 1,
         career_certainty |-> 1,
         math_enjoyment |-> 1,
         collaboration_preference |-> 1],
     campus |->
        [class_size_bin |-> <<"<"," ","6","0">>,
         setting |-> <<"U","r","b","a","n">>,
         housing_styles |-> <<<<"D","o","r","m">>>>,
         campus_size |-> <<"s","m","a","l","l">>],
     social |->
        [night_scene |-> 1,
         sports |-> <<<<"S","o","c","c","e","r">>>>,
         clubs |-> <<<<"C","h","e","s","s">>>>,
         cultural_event_freq |-> 1]]

\* an entity that lacks liked_hs_courses, two traits, campus_size and night_scene
PMixed ==
    [uni |-> <<"U","2">>,
     program |-> <<"D","a","t","a"," ","S","c","i","e","n","c","e">>,
     academic |->
        [interests |-> <<<<"M","a","c","h","i","n","e","-","L","e","a","r","n","i","n","g">>, <<"M","a","r","i","n","e"," ","B","i","o","l","o","g","y">>>>,
         alt_to_engineering |-> <<<<"A","p","p","l","i","e","d","_","M","a","t","h">>>>,
         learning_style |-> 5,
         first_year_specialization |-> 4,
         research_importance |-> 2,
         creativity_orientation |-> 1,
         math_enjoyment |-> 4,
         collaboration_preference |-> 5],
     campus |->
        [class_size_bin |-> <<"2","0","0","+">>,
         setting |-> <<"S","m","a","l","l","-","T","o","w","n">>,
         housing_styles |-> <<<<"S","u","i","t","e","-","S","t","y","l","e">>, <<"A","p","a","r","t","m","e","n","t">>>>],
     social |->
        [sports |-> <<<<"I","c","e","-","H","o","c","k","e","y">>>>,
         clubs |-> <<<<"D","e","b","a","t","e">>, <<"C","h","e","s","s">>>>,
         cultural_event_freq |-> 2]]

\* an entity that lacks the interests list
PBad ==
    [uni |-> <<"U","3">>,
     program |-> <<"N","u","r","s","i","n","g">>,
     academic |->
        [liked_hs_courses |-> <<<<"B","i","o","l","o","g","y">>>>,
         learning_style |-> 2],
     campus |->
        [class_size_bin |-> <<"6","0","-","2","0","0">>,
         setting |-> <<"s","u","b","u","r","b","a","n">>,
         campus_size |-> <<"M","e","d","i","u","m">>],
     social |->
        [night_scene |-> 3,
         sports |-> <<>>,
         clubs |-> <<>>]]

\* a profile that answers every trait with 1 and names PFull's tags
UExt ==
    [LS |-> 1,
     SP |-> 1,
     CO |-> 1,
     UR |-> 1,
     CR |-> 1,
     CE |-> 1,
     ME |-> 1,
     CP |-> 1,
     AA |-> <<<<"r","o","b","o","t","i","c","s">>>>,
     LC |-> <<<<"c","a","l","c","u","l","u","s">>>>,
     ALT |-> <<<<"p","h","y","s","i","c","s">>>>,
     CSB |-> <<"<"," ","6","0">>,
     SET |-> <<"u","r","b","a","n">>,
     HS |-> <<<<"d","o","r","m">>>>,
     CPS |-> <<"S","m","a","l","l">>,
     NS |-> 1,
     SPT |-> <<<<"s","o","c","c","e","r">>>>,
     CLB |-> <<<<"c","h","e","s","s">>>>,
     CEV |-> 1]

\* a profile with mixed answers and category names as interests
UMixed ==
    [LS |-> 5,
     SP |-> 4,
     CO |-> 5,
     UR |-> 2,
     CR |-> 4,
     CE |-> 3,
     ME |-> 1,
     CP |-> 2,
     AA |-> <<<<"C","S","/","M","a","t","h">>, <<"S","c","i","e","n","c","e","s">>>>,
     LC |-> <<<<"M","a","t","h">>>>,
     ALT |-> <<>>,
     CSB |-> <<"6","0","-","2","0","0">>,
     SET |-> <<"r","u","r","a","l">>,
     HS |-> <<<<"s","u","i","t","e"," ","s","t","y","l","e">>, <<"t","o","w","n","h","o","u","s","e">>>>,
     CPS |-> <<"m","e","d","i","u","m">>,
     NS |-> 5,
     SPT |-> <<<<"n","o","n","e">>>>,
     CLB |-> <<>>,
     CEV |-> 3]

\* PFull under another name of the same program type, at another institution
PTwin == [PFull EXCEPT !.uni = <<"U","4">>, !.program = <<"C","i","v","i","l"," ","E","n","g","i","n","e","e","r","i","n","g">>]

EntityPool == {PFull, PMixed, PBad, PTwin}

\* the catalogs: every list of at most MaxCatalog entities of the pool
Catalogs == UNION {[1..n -> EntityPool] : n \in 0..MaxCatalog}

WeightChoices == {<<0, 0, 0>>, <<1, 0, 0>>, <<2, 1, 3>>}

\* answers with the three weight keys set
WithWeights(answers, w) ==
    [k \in DOMAIN answers \cup {"wa", "wc", "wso"} |->
        IF k = "wa" THEN w[1] ELSE IF k = "wc" THEN w[2] ELSE IF k = "wso" THEN w[3]
        ELSE answers[k]]

\* the requests: a profile, or no answers at all, with each choice of weights
Requests == {WithWeights(u, w) : u \in {UExt, UMixed, <<>>}, w \in WeightChoices}

\* the keys of the request that compute_matches of api.py converts
NumericKeys == {"wa", "wc", "wso", "LS", "SP", "CO", "UR", "CR", "CE", "ME", "CP", "NS", "CEV"}

\* The body of the POST request as request.get_json() returns it.  A value that
\* compute_matches converts is held with its Python type: [type |-> "int",
\* value |-> 4], "float" with a binary64 value, "str" with a string, "bool",
\* "NoneType" for null, "list", "dict".  Json(answers) is the body of the
\* answers of the quiz, whose numbers are integers and whose HS, SPT and CLB
\* are lists.
Json(answers) ==
    [k \in DOMAIN answers |->
        IF k \in NumericKeys THEN [type |-> "int", value |-> answers[k]]
        ELSE IF k \in {"HS", "SPT", "CLB"} THEN [type |-> "list", value |-> answers[k]]
        ELSE answers[k]]

\* the bodies of the requests
Bodies == {Json(answers) : answers \in Requests}

\* the float 3.7
F3_7 == Bin64(31037849, 161061274, -51)

\* bodies that no quiz sends: null, a word, a list, numerals in strings and
\* fractions for the numbers, null for a tag list
OddBodies ==
    <<[NS |-> [type |-> "NoneType", value |-> None]],
      [LS |-> [type |-> "str", value |-> <<"a","b","c">>]],
      [CEV |-> [type |-> "list", value |-> <<3>>]],
      [wa |-> [type |-> "str", value |-> <<"x">>], NS |-> [type |-> "NoneType", value |-> None]],
      [HS |-> [type |-> "NoneType", value |-> None],
       CEV |-> [type |-> "str", value |-> <<"x">>]],
      [LS |-> [type |-> "str", value |-> <<"", "4">>]],
      [Json(WithWeights(UMixed, <<2, 1, 3>>)) EXCEPT
          !.wa = [type |-> "float", value |-> F0_5],
          !.wc = [type |-> "str", value |-> <<"2">>],
          !.LS = [type |-> "str", value |-> <<" ","4">>],
          !.SP = [type |-> "float", value |-> F3_7]]>>

(***************************************************************************)
(* The ranking loops.  A result is [school, program, overall, academic,    *)
(* campus, social]: the dict that api.py appends, and the tuple (total, a, *)
(* c, sos, uni, program) that match_me.py appends, under the same names.   *)
(***************************************************************************)
NoOut == [kind |-> "none"]

IdleRun ==
    [pc |-> "idle", engine |-> "none", req |-> <<>>, k |-> 0, A |-> <<>>,
     i |-> 0, results |-> <<>>, log |-> <<>>, out |-> NoOut]

\* list.sort(key=overall, reverse=True): descending and stable, so an element
\* goes behind every element whose key is not smaller
RECURSIVE InsertDesc(_, _)
InsertDesc(sorted, x) ==
    IF sorted = <<>> THEN <<x>>
    ELSE IF FLt(Head(sorted).overall, x.overall) THEN <<x>> \o sorted
    ELSE <<Head(sorted)>> \o InsertDesc(Tail(sorted), x)

RECURSIVE SortDescFrom(_, _, _)
SortDescFrom(list, i, sorted) ==
    IF i > Len(list) THEN sorted
    ELSE SortDescFrom(list, i + 1, InsertDesc(sorted, list[i]))

\* results.sort(...) without reverse=True: ascending and stable
RECURSIVE InsertAsc(_, _)
InsertAsc(sorted, x) ==
    IF sorted = <<>> THEN <<x>>
    ELSE IF FLt(x.overall, Head(sorted).overall) THEN <<x>> \o sorted
    ELSE <<Head(sorted)>> \o InsertAsc(Tail(sorted), x)

RECURSIVE SortAscFrom(_, _, _)
SortAscFrom(list, i, sorted) ==
    IF i > Len(list) THEN sorted
    ELSE SortAscFrom(list, i + 1, InsertAsc(sorted, list[i]))

SortAsc(list) == SortAscFrom(list, 1, <<>>)

\* the ascending stable sort, reversed: descending, with equal keys in reverse order
SortAscReversed(list) ==
    [i \in 1..Len(list) |-> SortAsc(list)[Len(list) + 1 - i]]

SortDesc(list) == SortDescFrom(list, 1, <<>>)

\* list[:n] for n >= 0
Take(list, n) == SubSeq(list, 1, IF n < Len(list) THEN n ELSE Len(list))

\* api.py, the loop body of compute_matches (lines 203-214) for entity p: the
\* dict it appends, or the exception it raises
ApiResult(p, A, a, c, s) ==
    [raised |-> FALSE,
     result |-> [school |-> p.uni, program |-> p.program,
                 academic |-> a, campus |-> c, social |-> s,
                 overall |-> FDiv(FAdd(FAdd(FMul(A.wa, a), FMul(A.wc, c)),
                                       FMul(A.wso, s)), A.W_TOTAL)]]

ApiBody(p, A) ==
    IF api_score_academic_raises(p) \/ api_score_campus_raises(p)
       \/ api_score_social_raises(p)
    THEN [raised |-> TRUE, exc |-> "KeyError"]
    ELSE IF IsZero(A.W_TOTAL)
    THEN [raised |-> TRUE, exc |-> "ZeroDivisionError"]
    ELSE IF "uni" \notin DOMAIN p \/ "program" \notin DOMAIN p
    THEN [raised |-> TRUE, exc |-> "KeyError"]
    ELSE ApiResult(p, A, api_score_academic(p, A), api_score_campus(p, A),
                   api_score_social(p, A))

\* match_me.py, the try block of compute_matches (lines 686-690) for entity p
\* total = (wa * a + wc * c + wso * sos) / (W_TOTAL or 1)
CliResult(p, user_answers, a, c, sos) ==
    [raised |-> FALSE,
     result |-> [school |-> p.uni, program |-> p.program,
                 academic |-> a, campus |-> c, social |-> sos,
                 overall |-> FDiv(FAdd(FAdd(FMul(user_answers.wa, a),
                                            FMul(user_answers.wc, c)),
                                       FMul(user_answers.wso, sos)),
                                  IF IsZero(user_answers.W_TOTAL) THEN F1_0
                                  ELSE user_answers.W_TOTAL)]]

CliBody(p, user_answers) ==
    IF score_academic_raises(p) \/ score_campus_raises(p) \/ score_social_raises(p)
    THEN [raised |-> TRUE, exc |-> "KeyError"]
    ELSE IF "uni" \notin DOMAIN p \/ "program" \notin DOMAIN p
    THEN [raised |-> TRUE, exc |-> "KeyError"]
    ELSE CliResult(p, user_answers, score_academic(p, user_answers),
                   score_campus(p, user_answers), score_social(p, user_answers))

\* The user_answers dict that the quiz hands to match_me.compute_matches: every
\* key present, an unanswered question at its default, W_TOTAL the sum of the
\* three weights.
UserAnswers(answers) ==
        [wa  |-> FromInt(Get(answers, "wa", 1)),
         wc  |-> FromInt(Get(answers, "wc", 1)),
         wso |-> FromInt(Get(answers, "wso", 1)),
         W_TOTAL |-> FAdd(FAdd(FromInt(Get(answers, "wa", 1)),
                               FromInt(Get(answers, "wc", 1))),
                          FromInt(Get(answers, "wso", 1))),
         AA  |-> Get(answers, "AA", <<>>),
         LS  |-> Get(answers, "LS", 3),
         SP  |-> Get(answers, "SP", 3),
         CO  |-> Get(answers, "CO", 3),
         UR  |-> Get(answers, "UR", 3),
         CR  |-> Get(answers, "CR", 3),
         CE  |-> Get(answers, "CE", 3),
         LC  |-> Get(answers, "LC", <<>>),
         ME  |-> Get(answers, "ME", 3),
         CP  |-> Get(answers, "CP", 3),
         ALT |-> Get(answers, "ALT", <<>>),
         CSB |-> Get(answers, "CSB", <<>>),
         SET |-> Get(answers, "SET", <<>>),
         HS  |-> Get(answers, "HS", <<>>),
         CPS |-> Get(answers, "CPS", <<>>),
         NS  |-> Get(answers, "NS", 3),
         SPT |-> Get(answers, "SPT", <<>>),
         CLB |-> Get(answers, "CLB", <<>>),
         CEV |-> Get(answers, "CEV", 3)]

\* api.py: compute_matches(answers, num_results) is called (lines 30-55, 201):
\* an exception of float() or int() leaves it before the loop
ApiCall(r, answers, num_results) ==
    LET AfterUnpack(unpack) ==
            IF unpack.raised
            THEN [pc |-> "done", engine |-> "api", req |-> answers, k |-> num_results,
                  A |-> <<>>, i |-> 1, results |-> <<>>, log |-> <<>>,
                  out |-> [kind |-> "raise", exc |-> unpack.exc]]
            ELSE [pc |-> "loop", engine |-> "api", req |-> answers, k |-> num_results,
                  A |-> ApiUnpack(answers), i |-> 1, results |-> <<>>, log |-> <<>>,
                  out |-> NoOut]
    IN  /\ run[r].pc = "idle"
        /\ run' = [run EXCEPT ![r] = AfterUnpack(ApiUnpackRaises(answers))]
        /\ UNCHANGED <<programs, call>>

\* the run after the loop body: an exception leaves compute_matches
ApiAfter(this, body) ==
    IF body.raised
    THEN [this EXCEPT !.pc = "done", !.out = [kind |-> "raise", exc |-> body.exc]]
    ELSE [this EXCEPT !.i = @ + 1, !.results = Append(@, body.result)]

\* ApiIteration with `results` a module-level list that every call appends to
ApiIterationShared(r) ==
    /\ run[r].pc = "loop"
    /\ run[r].engine = "api"
    /\ run[r].i <= Len(programs)
    /\ run' = [q \in DOMAIN run |->
                IF q = r THEN ApiAfter(run[r], ApiBody(programs[run[r].i], run[r].A))
                ELSE IF ApiBody(programs[run[r].i], run[r].A).raised THEN run[q]
                ELSE [run[q] EXCEPT !.results =
                         Append(@, ApiBody(programs[run[r].i], run[r].A).result)]]
    /\ UNCHANGED <<programs, call>>

\* api.py: one iteration of `for p in programs` (lines 202-214)
ApiIteration(r) ==
    /\ run[r].pc = "loop"
    /\ run[r].engine = "api"
    /\ run[r].i <= Len(programs)
    /\ run' = [run EXCEPT ![r] = ApiAfter(@, ApiBody(programs[run[r].i], run[r].A))]
    /\ UNCHANGED <<programs, call>>

\* api.py: the sort and the slice that end compute_matches (lines 215-216)
ApiReturn(r) ==
    /\ run[r].pc = "loop"
    /\ run[r].engine = "api"
    /\ run[r].i > Len(programs)
    /\ run' = [run EXCEPT ![r] =
                [@ EXCEPT !.pc = "done",
                          !.results = SortDesc(@),
                          !.out = [kind |-> "return",
                                   value |-> Take(SortDesc(run[r].results), run[r].k)]]]
    /\ UNCHANGED <<programs, call>>

\* match_me.py: compute_matches(user_answers) is called (lines 682-683)
CliCall(r, answers) ==
    /\ run[r].pc = "idle"
    /\ run' = [run EXCEPT ![r] =
                [pc |-> "loop", engine |-> "cli", req |-> answers, k |-> 0,
                 A |-> UserAnswers(answers), i |-> 1, results |-> <<>>, log |-> <<>>,
                 out |-> NoOut]]
    /\ UNCHANGED <<programs, call>>

\* the run after the try statement: an exception is printed and the entity
\* is left out
CliAfter(this, p, body) ==
    IF body.raised
    THEN [this EXCEPT !.i = @ + 1,
                      !.log = Append(@, <<Get(p, "uni", <<"U","n","k","n","o","w","n">>),
                                          Get(p, "program", <<"U","n","k","n","o","w","n">>),
                                          body.exc>>)]
    ELSE [this EXCEPT !.i = @ + 1, !.results = Append(@, body.result)]

\* match_me.py: one iteration of `for p in programs` (lines 684-692)
CliIteration(r) ==
    /\ run[r].pc = "loop"
    /\ run[r].engine = "cli"
    /\ run[r].i <= Len(programs)
    /\ run' = [run EXCEPT ![r] =
                CliAfter(@, programs[run[r].i], CliBody(programs[run[r].i], run[r].A))]
    /\ UNCHANGED <<programs, call>>

\* match_me.py: the sort that ends compute_matches (lines 694-695)
CliReturn(r) ==
    /\ run[r].pc = "loop"
    /\ run[r].engine = "cli"
    /\ run[r].i > Len(programs)
    /\ run' = [run EXCEPT ![r] =
                [@ EXCEPT !.pc = "done",
                          !.results = SortDesc(@),
                          !.out = [kind |-> "return", value |-> SortDesc(run[r].results)]]]
    /\ UNCHANGED <<programs, call>>

NoCall == [op |-> "none"]

\* the compute_matches calls that the model follows
Runs == {1}

Init ==
    /\ programs \in Catalogs
    /\ run = [r \in Runs |-> IdleRun]
    /\ call = NoCall

Next ==
    \/ \E r \in Runs, answers \in Bodies, num_results \in 0..MaxK :
           ApiCall(r, answers, num_results)
    \/ \E r \in Runs, b \in DOMAIN OddBodies : ApiCall(r, OddBodies[b], MaxK)
    \/ \E r \in Runs : ApiIteration(r)
    \/ \E r \in Runs : ApiReturn(r)
    \/ \E r \in Runs, answers \in Requests : CliCall(r, answers)
    \/ \E r \in Runs : CliIteration(r)
    \/ \E r \in Runs : CliReturn(r)

Spec == Init /\ [][Next]_vars

(***************************************************************************)
(* The pure functions on their own: one call of normalize_string, of       *)
(* calculate_trait_score_with_confidence or of score_categorical_distance, *)
(* its arguments drawn from a bounded set, and the value it returns.       *)
(***************************************************************************)
Alphabet == {"a", "B", "É", "-", "/", "_", " ", "\t", "\r"}

\* the strings over Alphabet of length at most MaxStrLen, and None
StringArgs == {None} \cup UNION {[1..n -> Alphabet] : n \in 0..MaxStrLen}

TraitValues == 1..5

\* the list of the n distinct values "x", "xx", ...
TagList(n) == [i \in 1..n |-> [j \in 1..i |-> "x"]]

\* ordered lists: those of score_campus, and lists of 1 to MaxOrderLen values
OrderLists ==
    {class_size_order, setting_order, campus_size_order}
        \cup {TagList(n) : n \in 1..MaxOrderLen}

\* a value that is in no ordered list
Unlisted == <<"?">>

PendingCalls ==
    {[op |-> "normalize_string", args |-> <<s>>, done |-> FALSE, ret |-> None] :
        s \in StringArgs}
    \cup
    {[op |-> "calculate_trait_score_with_confidence", args |-> <<u, v>>,
      done |-> FALSE, ret |-> None] : u \in TraitValues, v \in TraitValues}
    \cup
    UNION {{[op |-> "score_categorical_distance", args |-> <<u, v, l>>,
             done |-> FALSE, ret |-> None] :
                u \in {l[i] : i \in 1..Len(l)} \cup {Unlisted},
                v \in {l[i] : i \in 1..Len(l)} \cup {Unlisted}} : l \in OrderLists}

InitPrim ==
    /\ programs = <<>>
    /\ run = [r \in Runs |-> IdleRun]
    /\ call \in PendingCalls

DoNormalize ==
    /\ call.op = "normalize_string"
    /\ ~call.done
    /\ call' = [call EXCEPT !.done = TRUE, !.ret = normalize_string(call.args[1])]
    /\ UNCHANGED <<programs, run>>

DoTraitSim ==
    /\ call.op = "calculate_trait_score_with_confidence"
    /\ ~call.done
    /\ call' = [call EXCEPT !.done = TRUE,
                            !.ret = calculate_trait_score_with_confidence(
                                        call.args[1], call.args[2])]
    /\ UNCHANGED <<programs, run>>

DoCatSim ==
    /\ call.op = "score_categorical_distance"
    /\ ~call.done
    /\ call' = [call EXCEPT !.done = TRUE,
                            !.ret = score_categorical_distance(
                                        call.args[1], call.args[2], call.args[3])]
    /\ UNCHANGED <<programs, run>>

NextPrim == DoNormalize \/ DoTraitSim \/ DoCatSim

SpecPrim == InitPrim /\ [][NextPrim]_vars

(***************************************************************************)
(* Specification SpecPair: two calls of compute_matches, of either file,   *)
(* run at the same time over the one catalog of the process, as two        *)
(* requests served by two threads do.  A step is one loop iteration of one *)
(* of the calls, so the iterations of the two interleave in every order.   *)
(***************************************************************************)
PairRuns == {1, 2}

\* two profiles with positive total weight
PairRequests == {WithWeights(UExt, <<1, 0, 0>>), WithWeights(UMixed, <<2, 1, 3>>)}

PairBodies == {Json(answers) : answers \in PairRequests}

\* the catalogs of at most MaxCatalog of three entities
PairCatalogs == UNION {[1..n -> {PFull, PMixed, PBad}] : n \in 0..MaxCatalog}

InitPair ==
    /\ programs \in PairCatalogs
    /\ run = [r \in PairRuns |-> IdleRun]
    /\ call = NoCall

NextPair ==
    \/ \E r \in PairRuns, answers \in PairBodies : ApiCall(r, answers, MaxK)
    \/ \E r \in PairRuns : ApiIteration(r)
    \/ \E r \in PairRuns : ApiReturn(r)
    \/ \E r \in PairRuns, answers \in PairRequests : CliCall(r, answers)
    \/ \E r \in PairRuns : CliIteration(r)
    \/ \E r \in PairRuns : CliReturn(r)

SpecPair == InitPair /\ [][NextPair]_vars

(***************************************************************************)
(* Specification SpecScore: one call of detect_program_type, of            *)
(* enhanced_interest_score, of enhanced_course_score, or of the loop body  *)
(* of one of the two compute_matches for one entity, its arguments drawn   *)
(* from a bounded set, and the value it returns.                           *)
(***************************************************************************)
\* an entity whose eight traits are all 3
NeutralEntity(name, interests) ==
    [uni |-> <<"U","0">>,
     program |-> name,
     academic |->
        [interests |-> interests,
         learning_style |-> 3,
         first_year_specialization |-> 3,
         coop_importance |-> 3,
         research_importance |-> 3,
         creativity_orientation |-> 3,
         career_certainty |-> 3,
         math_enjoyment |-> 3,
         collaboration_preference |-> 3],
     campus |-> <<>>,
     social |-> [sports |-> <<<<"S","o","c","c","e","r">>, <<"R","u","g","b","y">>>>]]

\* program names: one without a hint, and one with a hint of each category
TypedNames ==
    {<<"F","o","o">>, <<"E","n","g","i","n","e","e","r","i","n","g">>, <<"C","o","m","p","u","t","i","n","g">>, <<"B","u","s","i","n","e","s","s">>, <<"A","r","t","s">>, <<"B","i","o","l","o","g","y">>, <<"N","u","r","s","i","n","g">>}

ScoreEntities ==
    {PFull, PMixed, PBad}
        \cup {NeutralEntity(n, <<>>) : n \in TypedNames}
        \cup {NeutralEntity(<<"F","o","o">>, <<<<"R","o","b","o","t","i","c","s">>>>)}

\* UExt with "None" among the sports
UNoneSoccer == [UExt EXCEPT !.SPT = <<<<"s","o","c","c","e","r">>, <<"N","o","n","e">>>>]

\* the profiles, and no answers at all, with positive weights
ScoreRequests == {WithWeights(u, <<2, 1, 3>>) : u \in {UExt, UMixed, UNoneSoccer, <<>>}}

\* all lists of at most n items of the set S
ListsUpTo(S, n) == UNION {[1..m -> S] : m \in 0..n}

\* longest tag list of an entity
MaxTags == 2

DetectTags == {<<"B","i","o","l","o","g","y">>, <<"R","o","b","o","t","i","c","s">>, <<"M","a","c","h","i","n","e","-","L","e","a","r","n","i","n","g">>, <<"M","a","c","h","i","n","e"," ","L","e","a","r","n","i","n","g">>}

DetectPrograms ==
    {[program |-> n, academic |-> [interests |-> l]] :
        n \in {<<"F","o","o">>, <<"E","n","g","i","n","e","e","r","i","n","g">>, <<"B","i","o","l","o","g","y">>}, l \in ListsUpTo(DetectTags, MaxTags)}

UserInterestLists ==
    {<<>>, <<<<"e","n","g","i","n","e","e","r","i","n","g">>, <<"x">>>>, <<<<"C","S","/","M","a","t","h">>>>, <<<<"C","S","/","M","a","t","h">>, <<"C","S","/","M","a","t","h">>>>}

EntityInterestTags == {<<"E","n","g","i","n","e","e","r","i","n","g">>, <<"R","o","b","o","t","i","c","s">>, <<"R","o","b","o","t","i","c","s"," ","P","r","o","g","r","a","m","m","i","n","g">>, <<"M","a","c","h","i","n","e","-","L","e","a","r","n","i","n","g">>}

UserCourseLists == {<<>>, <<<<"P","h","y","s","i","c","s">>>>, <<<<"M","a","t","h">>, <<"P","h","y","s","i","c","s">>>>}

EntityCourseTags == {<<"C","a","l","c","u","l","u","s">>, <<"C","a","l","c","u","l","u","s"," ","P","h","y","s","i","c","s">>, <<"P","h","y","s","i","c","s">>}

\* the pending calls, by function
DetectCalls ==
    {[op |-> "detect_program_type", args |-> <<p>>, done |-> FALSE, ret |-> None] :
        p \in DetectPrograms}

TagScoreCalls ==
    {[op |-> "enhanced_interest_score", args |-> <<u, l>>, done |-> FALSE, ret |-> None] :
        u \in UserInterestLists, l \in ListsUpTo(EntityInterestTags, MaxTags)}
    \cup
    {[op |-> "enhanced_course_score", args |-> <<u, l>>, done |-> FALSE, ret |-> None] :
        u \in UserCourseLists, l \in ListsUpTo(EntityCourseTags, MaxTags)}

BodyCalls ==
    {[op |-> e, args |-> <<p, answers>>, done |-> FALSE, ret |-> None] :
        e \in {"api", "cli"}, p \in ScoreEntities, answers \in ScoreRequests}

\* neutral entities that differ in the setting of their campus
SettingEntities ==
    {[NeutralEntity(<<"F","o","o">>, <<>>) EXCEPT !.campus = [setting |-> t]] :
        t \in {<<"U","r","b","a","n">>, <<"S","u","b","u","r","b","a","n">>, <<"S","m","a","l","l","-","T","o","w","n">>, <<"R","u","r","a","l">>, <<"R","e","m","o","t","e">>}}

\* requests that differ in the setting the user asks for, one without any
SettingRequests ==
    {WithWeights(<<>>, <<2, 1, 3>>)}
        \cup {WithWeights([SET |-> t], <<2, 1, 3>>) :
                  t \in {<<"u","r","b","a","n">>, <<"s","u","b","u","r","b","a","n">>, <<"s","m","a","l","l","_","t","o","w","n">>, <<"r","u","r","a","l">>, <<"i","s","l","a","n","d">>}}

SettingCalls ==
    {[op |-> e, args |-> <<p, answers>>, done |-> FALSE, ret |-> None] :
        e \in {"api", "cli"}, p \in SettingEntities, answers \in SettingRequests}

InitScore ==
    /\ programs = <<>>
    /\ run = [r \in Runs |-> IdleRun]
    /\ \/ call \in DetectCalls
       \/ call \in TagScoreCalls
       \/ call \in BodyCalls
       \/ call \in SettingCalls

DoDetectType ==
    /\ call.op = "detect_program_type"
    /\ ~call.done
    /\ call' = [call EXCEPT !.done = TRUE, !.ret = detect_program_type(call.args[1])]
    /\ UNCHANGED <<programs, run>>

DoInterestScore ==
    /\ call.op = "enhanced_interest_score"
    /\ ~call.done
    /\ call' = [call EXCEPT !.done = TRUE,
                            !.ret = enhanced_interest_score(call.args[1], call.args[2])]
    /\ UNCHANGED <<programs, run>>

DoCourseScore ==
    /\ call.op = "enhanced_course_score"
    /\ ~call.done
    /\ call' = [call EXCEPT !.done = TRUE,
                            !.ret = enhanced_course_score(call.args[1], call.args[2])]
    /\ UNCHANGED <<programs, run>>

\* api.py: the loop body of compute_matches for the entity call.args[1], after
\* the unpacking of the answers call.args[2]
DoApiBody ==
    /\ call.op = "api"
    /\ ~call.done
    /\ call' = [call EXCEPT !.done = TRUE,
                            !.ret = ApiBody(call.args[1], ApiUnpack(Json(call.args[2])))]
    /\ UNCHANGED <<programs, run>>

\* match_me.py: the try block of compute_matches for the entity call.args[1]
DoCliBody ==
    /\ call.op = "cli"
    /\ ~call.done
    /\ call' = [call EXCEPT !.done = TRUE,
                            !.ret = CliBody(call.args[1], UserAnswers(call.args[2]))]
    /\ UNCHANGED <<programs, run>>

NextScore == DoDetectType \/ DoInterestScore \/ DoCourseScore \/ DoApiBody \/ DoCliBody

SpecScore == InitScore /\ [][NextScore]_vars

(***************************************************************************)
(* Properties of the ranking runs (specification Spec).                    *)
(***************************************************************************)
\* x is in [0, 1]
InUnitInterval(x) == ~FLt(x, FZero) /\ ~FLt(F1_0, x)

\* the float 1.0000000000000002, one unit in the last place above 1.0
F1_0000000000000002 == Bin64(16777216, 1, -52)

\* computing some facet score of p, or reading its names, raises
Malformed(p) ==
    \/ score_academic_raises(p) \/ score_campus_raises(p) \/ score_social_raises(p)
    \/ "uni" \notin DOMAIN p \/ "program" \notin DOMAIN p

\* the list is sorted non-increasing by overall
SortedByOverall(list) ==
    \A j \in 1..(Len(list) - 1) : ~FLt(list[j].overall, list[j + 1].overall)

\* the request of run r has total weight zero
ZeroWeights(r) == "W_TOTAL" \in DOMAIN run[r].A /\ IsZero(run[r].A.W_TOTAL)

\* the request of run r has been unpacked and its total weight is not zero
NonzeroWeights(r) == "W_TOTAL" \in DOMAIN run[r].A /\ ~IsZero(run[r].A.W_TOTAL)

\* C1: a ranking run whose three weights sum to zero ends in an explicit
\* "invalid weights" error: not in a divide-by-zero failure, and not in a
\* returned list of results.
C1_ZeroWeightsRejected ==
    \A r \in DOMAIN run :
        (run[r].pc = "done" /\ ZeroWeights(r)) =>
            /\ run[r].out.kind = "raise"
            /\ run[r].out.exc = "InvalidWeights"

\* C1: the api run of a zero-weight request over a catalog of well-formed
\* entities has ended in ZeroDivisionError
C1_ZeroWeightsDivideByZero ==
    \E r \in DOMAIN run :
        /\ run[r].pc = "done" /\ run[r].engine = "api" /\ ZeroWeights(r)
        /\ programs # <<>> /\ ~Malformed(programs[1])
        /\ run[r].out.kind = "raise" /\ run[r].out.exc = "ZeroDivisionError"

\* C2: a run with positive total weight over a catalog that holds a malformed
\* entity returns, and its results are those of every other entity: one
\* result for each entity whose scoring does not raise.
C2_MalformedEntitySkipped ==
    \A r \in DOMAIN run :
        (run[r].pc = "done" /\ NonzeroWeights(r)) =>
            /\ run[r].out.kind = "return"
            /\ Len(run[r].results)
                   = Cardinality({i \in 1..Len(programs) : ~Malformed(programs[i])})
            /\ \A i \in 1..Len(programs) :
                   ~Malformed(programs[i]) =>
                       \E j \in 1..Len(run[r].results) :
                           run[r].results[j].program = programs[i].program

\* C2: the api run over a well-formed entity followed by a malformed one has
\* ended in the KeyError of the malformed entity, with positive total weight
C2_MalformedEntityAborts ==
    \E r \in DOMAIN run :
        /\ run[r].pc = "done" /\ run[r].engine = "api" /\ NonzeroWeights(r)
        /\ Len(programs) = 2 /\ ~Malformed(programs[1]) /\ Malformed(programs[2])
        /\ run[r].out.kind = "raise" /\ run[r].out.exc = "KeyError"

\* C3: scoring an entity that lacks an attribute never produces an error: no
\* run logs or raises a KeyError.
C3_AbsentAttributeNeverErrors ==
    \A r \in DOMAIN run :
        /\ \A j \in 1..Len(run[r].log) : run[r].log[j][3] # "KeyError"
        /\ run[r].out.kind = "raise" => run[r].out.exc # "KeyError"

\* C3: the cli run has logged the KeyError of the entity that has an academic
\* record without the interests list
C3_AbsentInterestsRaise ==
    \E r \in DOMAIN run :
        /\ run[r].engine = "cli"
        /\ Len(run[r].log) = 1
        /\ run[r].log[1] = <<PBad.uni, PBad.program, "KeyError">>
        /\ "interests" \notin DOMAIN PBad.academic

\* C4: the list that compute_matches returns is sorted non-increasing by
\* overall, and the list of api.py has min(num_results, len(programs)) items.
C4_RankSortedAndCut ==
    \A r \in DOMAIN run :
        (run[r].pc = "done" /\ run[r].out.kind = "return") =>
            /\ SortedByOverall(run[r].out.value)
            /\ run[r].engine = "api" =>
                   Len(run[r].out.value)
                       = IF run[r].k < Len(programs) THEN run[r].k ELSE Len(programs)

\* C4: api.py has returned one of two results, with positive total weight, and
\* the sort has moved the second entity's result before the first entity's
C4_SortedAndCutReached ==
    \E r \in DOMAIN run :
        /\ run[r].pc = "done" /\ run[r].engine = "api" /\ NonzeroWeights(r)
        /\ run[r].out.kind = "return"
        /\ Len(programs) = 2 /\ run[r].k = 1 /\ Len(run[r].out.value) = 1
        /\ programs[1].program # programs[2].program
        /\ run[r].out.value[1].program = programs[2].program
        /\ FLt(run[r].results[2].overall, run[r].results[1].overall)

\* C5: each of the academic, campus and social scores of every result lies in
\* [0, 1].
C5_FacetScoresInUnitInterval ==
    \A r \in DOMAIN run :
        \A j \in 1..Len(run[r].results) :
            /\ InUnitInterval(run[r].results[j].academic)
            /\ InUnitInterval(run[r].results[j].campus)
            /\ InUnitInterval(run[r].results[j].social)

\* C5: api.py has scored an entity whose every tag and trait the profile
\* matches, and the academic score is 1.0000000000000002
C5_AcademicAboveOne ==
    \E r \in DOMAIN run :
        /\ run[r].engine = "api"
        /\ Len(run[r].results) >= 1
        /\ run[r].results[1].academic = F1_0000000000000002

\* C6: with weights that are not all zero, the overall score of every result
\* is (wa*academic + wc*campus + wso*social) / (wa+wc+wso) and lies in [0, 1],
\* and with the weights (1, 0, 0) it is the academic score.
C6_OverallWeightedAverage ==
    \A r \in DOMAIN run :
        \A j \in 1..Len(run[r].results) :
            NonzeroWeights(r) =>
                /\ run[r].results[j].overall
                       = FDiv(FAdd(FAdd(FMul(run[r].A.wa, run[r].results[j].academic),
                                        FMul(run[r].A.wc, run[r].results[j].campus)),
                                   FMul(run[r].A.wso, run[r].results[j].social)),
                              run[r].A.W_TOTAL)
                /\ InUnitInterval(run[r].results[j].overall)
                /\ (run[r].A.wa = F1_0 /\ IsZero(run[r].A.wc) /\ IsZero(run[r].A.wso)) =>
                       run[r].results[j].overall = run[r].results[j].academic

\* C6: with the weights (1, 0, 0) a result's overall score is its academic
\* score, 1.0000000000000002
C6_OverallAboveOne ==
    \E r \in DOMAIN run :
        /\ NonzeroWeights(r)
        /\ run[r].A.wa = F1_0 /\ IsZero(run[r].A.wc) /\ IsZero(run[r].A.wso)
        /\ Len(run[r].results) >= 1
        /\ run[r].results[1].overall = run[r].results[1].academic
        /\ run[r].results[1].overall = F1_0000000000000002

\* the (school, program) names of the items of a list of results
ResultNames(list) == [j \in 1..Len(list) |-> <<list[j].school, list[j].program>>]

\* the results of overall score v, in the order of the list
TiedResults(list, v) ==
    LET Tied(x) == x.overall = v
    IN  SelectSeq(list, Tied)

\* the entities of the catalog that have a result of overall score v in the
\* list, in the order of the catalog
TiedEntities(list, v) ==
    LET Tied(p) == \E j \in 1..Len(list) :
                      /\ list[j].overall = v
                      /\ list[j].school = p.uni /\ list[j].program = p.program
    IN  SelectSeq(programs, Tied)

\* C13: in the sorted results of a run that has returned, the entities of
\* equal overall score stand in the order in which they stand in the catalog.
C13_SortIsStable ==
    \A r \in DOMAIN run :
        (run[r].pc = "done" /\ run[r].out.kind = "return") =>
            \A j \in 1..Len(run[r].results) :
                ResultNames(TiedResults(run[r].results, run[r].results[j].overall))
                    = [i \in 1..Len(TiedEntities(run[r].results, run[r].results[j].overall)) |->
                          <<TiedEntities(run[r].results, run[r].results[j].overall)[i].uni,
                            TiedEntities(run[r].results, run[r].results[j].overall)[i].program>>]

\* C13: a run with positive total weight over two different entities has
\* returned them with the same overall score, the first entity of the catalog
\* first
C13_TieInCatalogOrder ==
    \E r \in DOMAIN run :
        /\ run[r].pc = "done" /\ run[r].out.kind = "return" /\ NonzeroWeights(r)
        /\ Len(programs) = 2 /\ Len(run[r].results) = 2
        /\ programs[1].program # programs[2].program
        /\ run[r].results[1].overall = run[r].results[2].overall
        /\ run[r].results[1].program = programs[1].program
        /\ run[r].results[2].program = programs[2].program

(***************************************************************************)
(* Properties of the similarity primitives and of the normalizer           *)
(* (specification SpecPrim).                                               *)
(***************************************************************************)
\* the call of op has returned
Returned(op) == call.op = op /\ call.done

\* the float 0.30000000000000004 = 1.0 - 0.7, one unit in the last place above 0.3
F0_30000000000000004 == Bin64(20132659, 53687092, -54)

\* C7 as amended: calculate_trait_score_with_confidence(v, v) is the
\* confidence weight of v: 1.0 for v in {1, 5}, 0.8 for v in {2, 4} and 0.6
\* for v = 3.
C7_ExactMatchIsConfidenceWeight ==
    (Returned("calculate_trait_score_with_confidence") /\ call.args[1] = call.args[2]) =>
        call.ret = CASE Abs(call.args[1] - 3) = 2 -> F1_0
                     [] Abs(call.args[1] - 3) = 1 -> F0_8
                     [] Abs(call.args[1] - 3) = 0 -> F0_6

\* C7 as stated: calculate_trait_score_with_confidence(v, v) is 1.0 for every v
\* in 1..5.
C7_ExactMatchIsOne ==
    (Returned("calculate_trait_score_with_confidence") /\ call.args[1] = call.args[2]) =>
        call.ret = F1_0

\* C7: calculate_trait_score_with_confidence(3, 3) has returned 0.6
C7_NeutralExactMatch ==
    /\ Returned("calculate_trait_score_with_confidence")
    /\ call.args = <<3, 3>>
    /\ call.ret = F0_6

\* C8 as amended: calculate_trait_score_with_confidence(a, b) equals
\* calculate_trait_score_with_confidence(b, a) exactly when a and b are equally
\* far from the neutral answer 3.
C8_SymmetricIffEquallyFarFromNeutral ==
    Returned("calculate_trait_score_with_confidence") =>
        ((call.ret = calculate_trait_score_with_confidence(call.args[2], call.args[1]))
            <=> (Abs(call.args[1] - 3) = Abs(call.args[2] - 3)))

\* C8 as stated: calculate_trait_score_with_confidence(a, b) equals
\* calculate_trait_score_with_confidence(b, a) for all a and b in 1..5.
C8_Symmetric ==
    Returned("calculate_trait_score_with_confidence") =>
        call.ret = calculate_trait_score_with_confidence(call.args[2], call.args[1])

\* C8: calculate_trait_score_with_confidence(3, 5) has returned 0.3, and
\* calculate_trait_score_with_confidence(5, 3) is 0.5
C8_NeutralUserExtremeEntity ==
    /\ Returned("calculate_trait_score_with_confidence")
    /\ call.args = <<3, 5>>
    /\ call.ret = F0_3
    /\ calculate_trait_score_with_confidence(5, 3) = F0_5

\* the arguments of the returned score_categorical_distance call are values
\* of its list, which has at least two values
ListedPair ==
    /\ Returned("score_categorical_distance")
    /\ Len(call.args[3]) >= 2
    /\ InList(call.args[3], call.args[1])
    /\ InList(call.args[3], call.args[2])

\* the arguments are the first and the last value of the list, in either order
Endpoints ==
    \/ call.args[1] = call.args[3][1] /\ call.args[2] = call.args[3][Len(call.args[3])]
    \/ call.args[2] = call.args[3][1] /\ call.args[1] = call.args[3][Len(call.args[3])]

\* C9 as amended: for a list of at least two values, score_categorical_distance
\* of its first and last value returns 0.30000000000000004, and no pair of
\* values of the list scores below that.
C9_EndpointsScoreOneMinusPenalty ==
    ListedPair =>
        /\ ~FLt(call.ret, F0_30000000000000004)
        /\ Endpoints => call.ret = F0_30000000000000004

\* C9 as stated: score_categorical_distance of the first and last value
\* returns exactly 0.3, and no pair of values of the list scores below 0.3.
C9_EndpointsScoreExactFloor ==
    ListedPair =>
        /\ ~FLt(call.ret, F0_3)
        /\ Endpoints => call.ret = F0_3

\* C9: score_categorical_distance("< 60", "200+", class_size_order) has
\* returned 0.30000000000000004
C9_ClassSizeEndpoints ==
    /\ Returned("score_categorical_distance")
    /\ call.args = <<class_size_order[1], class_size_order[3], class_size_order>>
    /\ call.ret = F0_30000000000000004

\* C10: normalize_string is idempotent: normalize_string of what
\* normalize_string returned, for a str or None, is that value again.
C10_NormalizeIdempotent ==
    Returned("normalize_string") => normalize_string(call.ret) = call.ret

\* C10: normalize_string("_B\t") has returned "b": a separator replaced, a
\* letter lowered and the whitespace stripped
C10_NormalizeChanged ==
    /\ Returned("normalize_string")
    /\ call.args = <<<<"_", "B", "\t">>>>
    /\ call.ret = <<"b">>

(***************************************************************************)
(* Properties of the scorers (specification SpecScore).                    *)
(***************************************************************************)
\* the loop body of the engine's compute_matches for entity p and the answers
BodyOf(engine, p, answers) ==
    IF engine = "api" THEN ApiBody(p, ApiUnpack(Json(answers)))
    ELSE CliBody(p, UserAnswers(answers))

\* a loop body has returned a result
Scored == call.op \in {"api", "cli"} /\ call.done /\ ~call.ret.raised

FacetsOf(body) == <<body.result.academic, body.result.campus, body.result.social>>

\* the keys of the user's tag inputs
TagKeys == {"AA", "LC", "ALT", "HS", "SPT", "CLB"}

Reversed(l) == [i \in 1..Len(l) |-> l[Len(l) + 1 - i]]

\* the list with its first item repeated at the end
Repeated(l) == IF l = <<>> THEN l ELSE Append(l, l[1])

\* the answers with one tag list reordered, or with a tag of one list repeated
TagVariants(answers) ==
    {[answers EXCEPT ![k] = Reversed(@)] : k \in TagKeys \cap DOMAIN answers}
        \cup {[answers EXCEPT ![k] = Repeated(@)] : k \in TagKeys \cap DOMAIN answers}

\* C11: reordering the tags of one of the user's tag inputs, or repeating a
\* tag in it, leaves the academic, campus and social score of the entity
\* unchanged.
C11_UserTagsAreSets ==
    Scored =>
        \A variant \in TagVariants(call.args[2]) :
            /\ ~BodyOf(call.op, call.args[1], variant).raised
            /\ FacetsOf(BodyOf(call.op, call.args[1], variant)) = FacetsOf(call.ret)

\* C11: api.py has scored PFull for UExt with the academic score
\* 1.0000000000000002, and scores it 0.82 when the one interest of UExt is
\* given twice
C11_RepeatedInterestLowersScore ==
    /\ Scored
    /\ call.op = "api"
    /\ call.args = <<PFull, WithWeights(UExt, <<2, 1, 3>>)>>
    /\ call.ret.result.academic = F1_0000000000000002
    /\ ApiBody(PFull, ApiUnpack(Json([call.args[2] EXCEPT !.AA = Repeated(@)]))).result.academic
           = Bin64(27514634, 64424509, -53)

(***************************************************************************)
(* Properties of two concurrent runs (specification SpecPair).             *)
(***************************************************************************)
\* what api.py's compute_matches comes to when it runs alone, from entity i on
RECURSIVE AloneApi(_, _, _, _)
AloneApi(A, k, i, results) ==
    IF i > Len(programs)
    THEN [kind |-> "return", value |-> Take(SortDesc(results), k)]
    ELSE IF ApiBody(programs[i], A).raised
    THEN [kind |-> "raise", exc |-> ApiBody(programs[i], A).exc]
    ELSE AloneApi(A, k, i + 1, Append(results, ApiBody(programs[i], A).result))

\* what match_me.py's compute_matches comes to when it runs alone
RECURSIVE AloneCli(_, _, _)
AloneCli(user_answers, i, results) ==
    IF i > Len(programs)
    THEN [kind |-> "return", value |-> SortDesc(results)]
    ELSE IF CliBody(programs[i], user_answers).raised
    THEN AloneCli(user_answers, i + 1, results)
    ELSE AloneCli(user_answers, i + 1,
                  Append(results, CliBody(programs[i], user_answers).result))

\* the outcome of the call `this` when no other call runs
AloneOut(this) ==
    LET AfterUnpack(unpack) ==
            IF unpack.raised THEN [kind |-> "raise", exc |-> unpack.exc]
            ELSE AloneApi(ApiUnpack(this.req), this.k, 1, <<>>)
    IN  IF this.engine = "api" THEN AfterUnpack(ApiUnpackRaises(this.req))
        ELSE AloneCli(UserAnswers(this.req), 1, <<>>)

\* C12: under every interleaving of the iterations of two compute_matches
\* calls over the one catalog, no step modifies the catalog, and a call that
\* has ended has the outcome that it has when it runs alone.
C12_ConcurrentRunsIndependent ==
    /\ [][programs' = programs]_vars
    /\ [](\A r \in DOMAIN run : run[r].pc = "done" => run[r].out = AloneOut(run[r]))

\* C12: one call has returned its ranking of two entities while the other
\* call, for a different profile, is between its two iterations
C12_ReturnedWhileOtherLoops ==
    /\ Len(programs) = 2
    /\ run[1].pc = "done" /\ run[1].out.kind = "return" /\ Len(run[1].out.value) = 2
    /\ run[2].pc = "loop" /\ run[2].i = 2 /\ Len(run[2].results) = 1
    /\ (IF run[1].engine = "api" THEN run[1].req ELSE Json(run[1].req))
           # (IF run[2].engine = "api" THEN run[2].req ELSE Json(run[2].req))


(***************************************************************************)
(* Properties of single calls of the scorers (specification SpecScore).    *)
(***************************************************************************)
\* the values within one unit in the last place of 0.18
F0_17999999999999997 == Bin64(24159191, 10737417, -55)
F0_18 == Bin64(24159191, 10737418, -55)
F0_18000000000000002 == Bin64(24159191, 10737419, -55)

\* a loop body has scored an entity whose eight traits are all 3 for a user
\* whose eight trait answers are all 3 and whose interest, course and
\* alternative tags are empty
NeutralScored ==
    /\ Scored
    /\ \A j \in 1..Len(keys) : Get(call.args[1].academic, keys[j], 3) = 3
    /\ \A k \in {"LS", "SP", "CO", "UR", "CR", "CE", "ME", "CP"} :
           Get(call.args[2], k, 3) = 3
    /\ \A k \in {"AA", "LC", "ALT"} : Get(call.args[2], k, <<>>) = <<>>

\* C14 as stated: with all traits and all answers 3 and no interest, course
\* or alternative tag of the user, the academic score is exactly 0.18 for
\* every detected program type.
C14_NeutralAcademicExact ==
    NeutralScored => call.ret.result.academic = F0_18

\* C14: with all traits and all answers 3 and no interest, course or
\* alternative tag of the user, the academic score is 0.18 to within one unit
\* in the last place, whatever program type is detected, and exactly 0.18
\* when no type is detected.
C14_NeutralAcademicWithinUlp ==
    NeutralScored =>
        /\ call.ret.result.academic
               \in {F0_17999999999999997, F0_18, F0_18000000000000002}
        /\ detect_program_type(call.args[1]) = None
               => call.ret.result.academic = F0_18

\* C14: a neutral entity detected as Engineering has been scored
\* 0.17999999999999997 for a neutral user
C14_NeutralEngineeringBelow ==
    /\ NeutralScored
    /\ detect_program_type(call.args[1]) = <<"E","n","g","i","n","e","e","r","i","n","g">>
    /\ call.ret.result.academic = F0_17999999999999997


\* the user's normalized sport set
UserSports(answers) == NormSet(Get(answers, "SPT", <<>>))

\* the social score of entity p when its sports sub-score is spt_score
SocialWithSports(p, answers, spt_score) ==
    SocialMean(
        calculate_trait_score_with_confidence(Get(answers, "NS", 3),
                                              Get(p.social, "night_scene", 3)),
        spt_score,
        ClubsScore(NormSet(Get(answers, "CLB", <<>>)),
                   NormSet(Get(p.social, "clubs", <<>>))),
        calculate_trait_score_with_confidence(Get(answers, "CEV", 3),
                                              Get(p.social, "cultural_event_freq", 3)))

\* C15: when the user's normalized sport set is empty or contains "none",
\* the sports sub-score is 1.0: the social score of every entity is the mean
\* of the night-scene, club and cultural-event sub-scores and 1.0, whatever
\* sports the entity lists.
C15_NoSportPreferenceScoresOne ==
    (Scored /\ (UserSports(call.args[2]) = {} \/ StrNone \in UserSports(call.args[2])))
        => call.ret.result.social = SocialWithSports(call.args[1], call.args[2], F1_0)

\* C15: an entity that lists ice hockey only has been scored for a user who
\* names "soccer" and "None", with the sports sub-score 1.0
C15_NoneAmongSports ==
    /\ Scored
    /\ UserSports(call.args[2]) = {StrNone, <<"s","o","c","c","e","r">>}
    /\ NormSet(call.args[1].social.sports) = {<<"i","c","e"," ","h","o","c","k","e","y">>}
    /\ call.ret.result.social = SocialWithSports(call.args[1], call.args[2], F1_0)


\* category_counts of detect_program_type at its return, as pairs
\* <<category, count>> in the order in which the categories were first counted
CategoryCounts(program) ==
    CountNameHints(StrLower(Get(program, "program", <<>>)), 1,
        CountInterests(Get(Get(program, "academic", <<>>), "interests", <<>>), 1, <<>>))

\* the count of the category, 0 when it was never counted
CountOf(counts, category) ==
    IF \E i \in 1..Len(counts) : counts[i][1] = category
    THEN counts[CHOOSE i \in 1..Len(counts) : counts[i][1] = category][2]
    ELSE 0

\* the categories in table order: Engineering, CS/Math, Business,
\* Arts/Humanities, Sciences, Health
CategoryOrder == [c \in 1..Len(name_hints) |-> name_hints[c][1]]

\* the first category in table order whose count is maximal
FirstMaximal(counts) ==
    CategoryOrder[CHOOSE c \in 1..Len(CategoryOrder) :
        /\ \A d \in 1..Len(CategoryOrder) :
               CountOf(counts, CategoryOrder[d]) <= CountOf(counts, CategoryOrder[c])
        /\ \A d \in 1..(c - 1) :
               CountOf(counts, CategoryOrder[d]) < CountOf(counts, CategoryOrder[c])]

\* C16: detect_program_type returns None exactly when no category has a
\* positive count, and otherwise the category of maximal count that comes
\* first in the table order, wherever the counts came from.
C16_TypeIsFirstMaximalInTableOrder ==
    (call.op = "detect_program_type" /\ call.done) =>
        /\ call.ret = None <=> CategoryCounts(call.args[1]) = <<>>
        /\ call.ret # None => call.ret = FirstMaximal(CategoryCounts(call.args[1]))

\* C16: the program "Foo" with the interests Biology and Robotics, one count
\* each for Sciences and Engineering, has been detected as Sciences
C16_TieGoesToFirstCounted ==
    /\ call.op = "detect_program_type" /\ call.done
    /\ call.args[1].program = <<"F","o","o">>
    /\ call.args[1].academic.interests = <<<<"B","i","o","l","o","g","y">>, <<"R","o","b","o","t","i","c","s">>>>
    /\ CategoryCounts(call.args[1]) = <<<<<<"S","c","i","e","n","c","e","s">>, 1>>, <<<<"E","n","g","i","n","e","e","r","i","n","g">>, 1>>>>
    /\ call.ret = <<"S","c","i","e","n","c","e","s">>


\* the tag earns credit under first match wins: it is one of the user's tags,
\* or the category of the first keyword of the table that it contains is
CreditedByFirstMatch(tag_normalized, user_items, first_category) ==
    \/ tag_normalized \in NormSet(user_items)
    \/ /\ first_category # None
       /\ \/ normalize_string(first_category) \in NormSet(user_items)
          \/ InList(user_items, first_category)

\* some tag of the list earns credit under first match wins
SomeCredited(tags, user_items, mappings) ==
    \E i \in 1..Len(tags) :
        CreditedByFirstMatch(normalize_string(tags[i]), user_items,
                             FirstCategoryIn(normalize_string(tags[i]), mappings))

\* C17: in interest and course scoring a tag is mapped to the category of the
\* first keyword in table order that its normalized form contains, and earns
\* partial credit only if that category is among the user's tags: a score
\* above 0 needs a tag that is a user's tag or whose first category is.
C17_OnlyFirstKeywordCategoryCredited ==
    /\ (call.op = "enhanced_interest_score" /\ call.done /\ ~IsZero(call.ret))
           => SomeCredited(call.args[2], call.args[1], INTEREST_MAPPINGS)
    /\ (call.op = "enhanced_course_score" /\ call.done /\ ~IsZero(call.ret))
           => SomeCredited(call.args[2], call.args[1], COURSE_MAPPINGS)

\* C17: the interest "Robotics Programming", whose first keyword is of
\* Engineering, has been scored 0.8 for a user whose one interest is CS/Math
C17_LaterKeywordCredited ==
    /\ call.op = "enhanced_interest_score" /\ call.done
    /\ call.args = <<<<<<"C","S","/","M","a","t","h">>>>, <<<<"R","o","b","o","t","i","c","s"," ","P","r","o","g","r","a","m","m","i","n","g">>>>>>
    /\ FirstCategoryIn(<<"r","o","b","o","t","i","c","s"," ","p","r","o","g","r","a","m","m","i","n","g">>, INTEREST_MAPPINGS) = <<"E","n","g","i","n","e","e","r","i","n","g">>
    /\ call.ret = F0_8


\* the program with every interest tag in its normalized form
WithNormalizedInterests(program) ==
    [program EXCEPT !.academic.interests =
        [i \in 1..Len(@) |-> normalize_string(@[i])]]

\* C18: the detector compares the normalized form of an interest tag with the
\* keyword table, as the interest scorer does: the form of the tag that the
\* detector scans has the category of the normalized tag, and the detected
\* type is that of the program with its tags normalized, so that tags which
\* differ only in case, hyphen, slash or underscore count alike.
C18_DetectorUsesNormalizedTags ==
    (call.op = "detect_program_type" /\ call.done) =>
        /\ \A i \in 1..Len(call.args[1].academic.interests) :
               FirstCategoryIn(StrLower(call.args[1].academic.interests[i]),
                               INTEREST_MAPPINGS)
                   = FirstCategoryIn(normalize_string(call.args[1].academic.interests[i]),
                                     INTEREST_MAPPINGS)
        /\ call.ret = detect_program_type(WithNormalizedInterests(call.args[1]))

\* C18: the program "Foo" with the one interest "Machine-Learning" has no
\* detected type, and has the type CS/Math with the interest "Machine Learning"
C18_HyphenatedTagNotCounted ==
    /\ call.op = "detect_program_type" /\ call.done
    /\ call.args[1].program = <<"F","o","o">>
    /\ call.args[1].academic.interests = <<<<"M","a","c","h","i","n","e","-","L","e","a","r","n","i","n","g">>>>
    /\ call.ret = None
    /\ detect_program_type(WithNormalizedInterests(call.args[1])) = <<"C","S","/","M","a","t","h">>


(***************************************************************************)
(* Properties of the two engines on one request (specification SpecPair).  *)
(***************************************************************************)
\* run r of api.py and run q of match_me.py have ended, both for the same
\* request, whose total weight is positive
SameRequestEnded(r, q) ==
    /\ run[r].pc = "done" /\ run[r].engine = "api"
    /\ run[q].pc = "done" /\ run[q].engine = "cli"
    /\ run[r].req = Json(run[q].req)
    /\ NonzeroWeights(r)

\* C19: for one catalog and one request with positive total weight, the
\* compute_matches of api.py returns the results of the compute_matches of
\* match_me.py, with the same academic, campus, social and overall score of
\* every entity and in the same order, cut to the number asked for.
C19_EnginesAgree ==
    \A r, q \in DOMAIN run :
        SameRequestEnded(r, q) =>
            /\ run[r].out.kind = "return"
            /\ run[r].out.value = Take(run[q].out.value, run[r].k)

\* C19: over a catalog that holds an entity without interests, api.py has
\* raised KeyError where match_me.py has returned a ranking of the other
\* entity, for the same request
C19_ApiRaisedWhereCliRanked ==
    \E r, q \in DOMAIN run :
        /\ SameRequestEnded(r, q)
        /\ \E i \in 1..Len(programs) : programs[i] = PBad
        /\ run[r].out = [kind |-> "raise", exc |-> "KeyError"]
        /\ run[q].out.kind = "return"
        /\ Len(run[q].out.value) = 1


(***************************************************************************)
(* Properties of the interest score (specification SpecScore).             *)
(***************************************************************************)
\* C20: the interest score does not depend on the order of the entity's
\* interest tags: the entity's list in reverse order has the same score.
C20_InterestScoreIgnoresTagOrder ==
    (call.op = "enhanced_interest_score" /\ call.done) =>
        call.ret = enhanced_interest_score(call.args[1], Reversed(call.args[2]))

\* C20: for the user interests "engineering" and "x" the entity tags
\* Engineering, Robotics have been scored 0.55, and score 0.925 as Robotics,
\* Engineering, where the category match of Robotics comes first
C20_DirectMatchFirstLosesCredit ==
    /\ call.op = "enhanced_interest_score" /\ call.done
    /\ call.args = <<<<<<"e","n","g","i","n","e","e","r","i","n","g">>, <<"x">>>>, <<<<"E","n","g","i","n","e","e","r","i","n","g">>, <<"R","o","b","o","t","i","c","s">>>>>>
    /\ call.ret = Bin64(18454937, 161061274, -53)
    /\ enhanced_interest_score(call.args[1], Reversed(call.args[2])) = Bin64(31037849, 161061274, -53)


(***************************************************************************)
(* Properties of the campus scorer (specification SpecScore).              *)
(***************************************************************************)
\* the normalized settings that score_campus compares
UserSetting(answers) == normalize_string(Get(answers, "SET", <<>>))

EntitySetting(p) == normalize_string(Get(p.campus, "setting", <<>>))

\* both settings are of the group {urban, suburban}, or both of the group
\* {small town, rural}
SameSettingGroup(a, b) ==
    \/ {a, b} \subseteq {<<"u","r","b","a","n">>, <<"s","u","b","u","r","b","a","n">>}
    \/ {a, b} \subseteq {<<"s","m","a","l","l"," ","t","o","w","n">>, <<"r","u","r","a","l">>}

\* the campus score of entity p when its setting sub-score is setting_score
CampusWithSetting(p, answers, setting_score) ==
    CampusMean(
        <<score_categorical_distance(Get(answers, "CSB", <<>>),
                                     Get(p.campus, "class_size_bin", Str60_200),
                                     class_size_order),
          setting_score,
          HousingScore(NormSet(Get(answers, "HS", <<>>)),
                       NormSet(Get(p.campus, "housing_styles", <<>>))),
          CampusSizeScore(Get(answers, "CPS", <<>>),
                          Get(p.campus, "campus_size", StrMedium))>>)

\* C21: the setting sub-score of the campus scorer is never 0.6: when the
\* normalized settings differ and are of the same group, the sub-score is
\* the ordered-categorical distance score, and when they differ and one of
\* them is not in the setting order, the fallback gives 0.2.
C21_SettingNeverGroupCredit ==
    Scored =>
        /\ call.ret.result.campus # CampusWithSetting(call.args[1], call.args[2], F0_6)
        /\ (/\ UserSetting(call.args[2]) # EntitySetting(call.args[1])
            /\ SameSettingGroup(UserSetting(call.args[2]), EntitySetting(call.args[1])))
               => call.ret.result.campus
                      = CampusWithSetting(call.args[1], call.args[2],
                            score_categorical_distance(UserSetting(call.args[2]),
                                                       EntitySetting(call.args[1]),
                                                       setting_order))
        /\ (/\ UserSetting(call.args[2]) # EntitySetting(call.args[1])
            /\ ~(/\ InList(setting_order, UserSetting(call.args[2]))
                 /\ InList(setting_order, EntitySetting(call.args[1]))))
               => call.ret.result.campus
                      = CampusWithSetting(call.args[1], call.args[2], F0_2)

\* C21: an entity in a "Rural" setting has been scored for a user who asks
\* for "small_town", with the setting sub-score 0.7666666666666667 of the
\* distance branch
C21_SameGroupByDistance ==
    /\ Scored
    /\ UserSetting(call.args[2]) = <<"s","m","a","l","l"," ","t","o","w","n">>
    /\ EntitySetting(call.args[1]) = <<"r","u","r","a","l">>
    /\ call.ret.result.campus
           = CampusWithSetting(call.args[1], call.args[2],
                               Bin64(25725064, 143165577, -53))

====
